---- MODULE Spec2Model ----
(***************************************************************************)
(* Model of the MEDGraph medical-institutions extraction pipeline:         *)
(* extractors/base.py (BaseExtractor), the per-country extractors          *)
(* (usa.py, ind.py, can.py, chn.py), and the institutions table created    *)
(* by setup_db.py.                                                         *)
(*                                                                         *)
(* Strings are TLA+ strings; a character is a string of length one,        *)
(* obtained with SubSeq(s, i, i).                                          *)
(***************************************************************************)
EXTENDS Integers, Sequences, FiniteSets, TLC

(***************************************************************************)
(* Values that are not strings.                                            *)
(***************************************************************************)
\* Python None / SQL NULL
NULL == "<NULL>"
\* A value that is neither None nor a str (an int, or the float NaN that
\* pandas yields for an empty cell)
NONSTR == "<NONSTR>"

Max(a, b) == IF a >= b THEN a ELSE b

(***************************************************************************)
(* Characters.                                                             *)
(***************************************************************************)
Char(s, i) == SubSeq(s, i, i)

Digits == "0123456789"
LowerCase == "abcdefghijklmnopqrstuvwxyz"
UpperCase == "ABCDEFGHIJKLMNOPQRSTUVWXYZ"
\* code-point order of the characters that survive full_process
Ordered == Digits \o LowerCase

IndexIn(s, c) == IF \E i \in 1..Len(s) : Char(s, i) = c
                 THEN CHOOSE i \in 1..Len(s) : Char(s, i) = c
                 ELSE 0

IsDigit(c) == IndexIn(Digits, c) > 0
\* \s of the re module, for the characters the model uses
IsSpace(c) == c = " "
\* str.lower() on one character
ToLower(c) == IF IndexIn(UpperCase, c) > 0
              THEN Char(LowerCase, IndexIn(UpperCase, c))
              ELSE c
\* \w : letters and digits
IsWord(c) == IndexIn(Ordered, ToLower(c)) > 0

(***************************************************************************)
(* str.strip(): remove leading and trailing whitespace.                    *)
(***************************************************************************)
RECURSIVE LStrip(_)
LStrip(s) == IF Len(s) > 0 /\ IsSpace(Char(s, 1))
             THEN LStrip(SubSeq(s, 2, Len(s)))
             ELSE s

RECURSIVE RStrip(_)
RStrip(s) == IF Len(s) > 0 /\ IsSpace(Char(s, Len(s)))
             THEN RStrip(SubSeq(s, 1, Len(s) - 1))
             ELSE s

Strip(s) == RStrip(LStrip(s))

(***************************************************************************)
(* fuzzywuzzy: utils.full_process, fuzz._process_and_sort, fuzz.ratio and  *)
(* fuzz.token_sort_ratio.                                                  *)
(***************************************************************************)
\* replace every non-word character by a space and lower-case the rest
RECURSIVE ReplaceNonWord(_)
ReplaceNonWord(s) ==
    IF Len(s) = 0 THEN ""
    ELSE (IF IsWord(Char(s, 1)) THEN ToLower(Char(s, 1)) ELSE " ")
         \o ReplaceNonWord(SubSeq(s, 2, Len(s)))

full_process(s) == Strip(ReplaceNonWord(s))

\* str.split(): the maximal runs of non-space characters, in order
RECURSIVE SplitFrom(_, _, _)
SplitFrom(s, i, cur) ==
    IF i > Len(s)
    THEN (IF cur = "" THEN << >> ELSE << cur >>)
    ELSE IF IsSpace(Char(s, i))
         THEN (IF cur = "" THEN << >> ELSE << cur >>) \o SplitFrom(s, i + 1, "")
         ELSE SplitFrom(s, i + 1, cur \o Char(s, i))

Split(s) == SplitFrom(s, 1, "")

\* s < t in Python's string order
RECURSIVE StrLess(_, _)
StrLess(s, t) ==
    IF Len(t) = 0 THEN FALSE
    ELSE IF Len(s) = 0 THEN TRUE
    ELSE IF Char(s, 1) = Char(t, 1)
         THEN StrLess(SubSeq(s, 2, Len(s)), SubSeq(t, 2, Len(t)))
         ELSE IndexIn(Ordered, Char(s, 1)) < IndexIn(Ordered, Char(t, 1))

\* insert token t into the sorted sequence toks
RECURSIVE InsertSorted(_, _)
InsertSorted(t, toks) ==
    IF Len(toks) = 0 THEN << t >>
    ELSE IF StrLess(t, Head(toks)) THEN << t >> \o toks
    ELSE << Head(toks) >> \o InsertSorted(t, Tail(toks))

\* sorted(tokens)
RECURSIVE SortTokens(_)
SortTokens(toks) ==
    IF Len(toks) = 0 THEN << >>
    ELSE InsertSorted(Head(toks), SortTokens(Tail(toks)))

\* " ".join(tokens)
RECURSIVE Join(_)
Join(toks) ==
    IF Len(toks) = 0 THEN ""
    ELSE IF Len(toks) = 1 THEN Head(toks)
    ELSE Head(toks) \o " " \o Join(Tail(toks))

process_and_sort(s) == Strip(Join(SortTokens(Split(full_process(s)))))

\* One row of the longest-common-subsequence table: prev and cur hold the
\* columns 0..Len(b) at the indices 1..Len(b)+1.  (The test on Len makes
\* TLC compute each row before it recurses; it is always true.)
RECURSIVE LcsRow(_, _, _, _, _)
LcsRow(prev, c, b, j, cur) ==
    IF j > Len(b) THEN cur
    ELSE LET next == Append(cur, IF c = Char(b, j)
                                 THEN prev[j] + 1
                                 ELSE Max(prev[j + 1], cur[j]))
         IN  IF Len(next) = j + 1 THEN LcsRow(prev, c, b, j + 1, next) ELSE << >>

RECURSIVE LcsRows(_, _, _, _)
LcsRows(a, b, i, prev) ==
    IF i > Len(a) THEN prev[Len(b) + 1]
    ELSE LET row == LcsRow(prev, Char(a, i), b, 1, << 0 >>)
         IN  IF Len(row) = Len(b) + 1 THEN LcsRows(a, b, i + 1, row) ELSE -1

\* length of a longest common subsequence of a and b
LCS(a, b) == LcsRows(a, b, 1, [j \in 1..(Len(b) + 1) |-> 0])

\* int(round(100 * 2M / T)), Python 3 rounding (ties to even)
RoundedPercent(m, t) ==
    LET q == (200 * m) \div t
        r == (200 * m) % t
    IN  IF 2 * r > t THEN q + 1
        ELSE IF 2 * r < t THEN q
        ELSE IF q % 2 = 0 THEN q ELSE q + 1

\* fuzz.ratio: 100 for equal operands (check_for_equivalence), else 0 for
\* an empty operand (check_empty_string), else the Levenshtein (indel) ratio
ratio(a, b) ==
    IF a = b THEN 100
    ELSE IF Len(a) = 0 \/ Len(b) = 0 THEN 0
    ELSE RoundedPercent(LCS(a, b), Len(a) + Len(b))

token_sort_ratio(s1, s2) == ratio(process_and_sort(s1), process_and_sort(s2))


(***************************************************************************)
(* re.sub as the normalizers use it (usa.py, ind.py, chn.py).              *)
(***************************************************************************)
\* re.sub(r'\s+', ' ', s): every maximal run of whitespace becomes one space
RECURSIVE CollapseSpaces(_)
CollapseSpaces(s) ==
    IF Len(s) = 0 THEN ""
    ELSE IF IsSpace(Char(s, 1))
         THEN " " \o CollapseSpaces(LStrip(s))
         ELSE Char(s, 1) \o CollapseSpaces(SubSeq(s, 2, Len(s)))

StartsWith(s, p) == Len(s) >= Len(p) /\ SubSeq(s, 1, Len(p)) = p

\* re.sub(r'\[edit\]', '', s): one left-to-right pass over non-overlapping
\* matches
RECURSIVE RemoveEdit(_)
RemoveEdit(s) ==
    IF Len(s) = 0 THEN ""
    ELSE IF StartsWith(s, "[edit]")
         THEN RemoveEdit(SubSeq(s, 7, Len(s)))
         ELSE Char(s, 1) \o RemoveEdit(SubSeq(s, 2, Len(s)))

\* number of digits at the start of s
RECURSIVE DigitRun(_)
DigitRun(s) ==
    IF Len(s) > 0 /\ IsDigit(Char(s, 1))
    THEN 1 + DigitRun(SubSeq(s, 2, Len(s)))
    ELSE 0

\* re.sub(r'\[\d+\]', '', s)
RECURSIVE RemoveRefs(_)
RemoveRefs(s) ==
    IF Len(s) = 0 THEN ""
    ELSE LET k == DigitRun(SubSeq(s, 2, Len(s)))
         IN  IF Char(s, 1) = "[" /\ k >= 1 /\ Len(s) >= k + 2
                 /\ Char(s, k + 2) = "]"
             THEN RemoveRefs(SubSeq(s, k + 3, Len(s)))
             ELSE Char(s, 1) \o RemoveRefs(SubSeq(s, 2, Len(s)))

(***************************************************************************)
(* Bounds of the model.                                                    *)
(***************************************************************************)
\* the clock runs from 0 to MaxTime days
MaxTime == 2
\* refresh_days is drawn from 1..MaxRefreshDays
MaxRefreshDays == 1
\* runs are started, and the upstream sources list records, while the id
\* sequence is at most MaxId
MaxId == 4
\* at most MaxStarts runs are started
MaxStarts == 2
\* an adapter finds records upstream only while the run holds fewer than
\* MaxFetched records
MaxFetched == 3
\* one successful adapter returns at most MaxListing records
MaxListing == 1
\* the built-in lists of the adapters are cut to their first MaxStatic entries
MaxStatic == 1

(***************************************************************************)
(* config.py and extractors/__init__.py                                    *)
(***************************************************************************)
InstitutionType ==
    {"hospital", "clinic", "medical_school", "veterinary_school",
     "academic_medical_center", "other"}

\* the keys of extractor_registry
Countries == {"USA", "CAN", "CHN", "IND"}

\* the threshold of deduplicate
Threshold == 90

(***************************************************************************)
(* Raw records.  A coordinate is None, a number, or a string.              *)
(***************************************************************************)
NoCoord == [k |-> "null"]
NumCoord(n) == [k |-> "num", v |-> n]
StrCoord(s) == [k |-> "str", v |-> s]

Raw(name, address, state, type) ==
    [name |-> name, type |-> type, state |-> state, address |-> address,
     latitude |-> NoCoord, longitude |-> NoCoord]

\* the example of the specification and a third spelling: A~B and B~C score
\* above the threshold, A~C below
RecA == Raw("St. Mary Hospital", "12 Elm St", NULL, "hospital")
RecB == Raw("St Marys Hospital", "12 Elm Street", NULL, "hospital")
RecC == Raw("St Marys Hospitals", "12 Elm Streets", NULL, "hospital")
\* two names that score exactly the threshold
RecK == Raw("Oak Clinic", NULL, NULL, "clinic")
RecL == Raw("Oak Clinik", NULL, NULL, "clinic")

\* what the upstream sources may list, per scenario
ChainPool == {RecA, RecB, RecC}
ThresholdPool == {RecK, RecL}
Pools == {ChainPool, ThresholdPool}

\* records that exercise normalize and the INSERT: no name; a type outside
\* the enum; '[edit]' nested in '[edit]'; an empty cell that pandas reads as
\* NaN; coordinates out of range; blanks to collapse
RecNoName == Raw(NULL, NULL, NULL, "clinic")
RecBadType == Raw("Elm Vet", NULL, NULL, "pharmacy")
RecNested == Raw("Oak[ed[edit]it] Clinic", NULL, NULL, "clinic")
RecNaNState == Raw("Elm Vet", NULL, NONSTR, "clinic")
RecFarNorth ==
    [Raw("Fir Lab", NULL, "TN", "other") EXCEPT
        !.latitude = StrCoord("200"), !.longitude = NumCoord(0 - 200)]
RecSpaced == Raw(" Oak  Clinic", NULL, " NY ", "clinic")
\* a name that is only a decoration, and a name that is empty once the
\* adapter has stripped it
RecMarkupOnly == Raw("[edit]", NULL, NULL, "hospital")
RecBlank == Raw("", NULL, NULL, "hospital")

\* what fetch_data may return in the runs of one batch
RecordPool ==
    {RecK, RecL, RecNoName, RecBadType, RecNested, RecNaNState, RecFarNorth,
     RecSpaced, RecMarkupOnly, RecBlank}

(***************************************************************************)
(* The built-in lists of the adapters (first entries).                     *)
(***************************************************************************)
Min(a, b) == IF a <= b THEN a ELSE b
Truncate(list) == SubSeq(list, 1, Min(MaxStatic, Len(list)))

teaching_hospitals ==
    << [name |-> "Mayo Clinic", type |-> "academic_medical_center",
        state |-> "MN", address |-> NULL,
        latitude |-> NoCoord, longitude |-> NoCoord],
       [name |-> "Cleveland Clinic", type |-> "academic_medical_center",
        state |-> "OH", address |-> NULL,
        latitude |-> NoCoord, longitude |-> NoCoord] >>

fallback_clinics ==
    << [name |-> "Community Health Center of Buffalo", type |-> "clinic",
        state |-> "NY", address |-> NULL,
        latitude |-> NoCoord, longitude |-> NoCoord],
       [name |-> "Alliance Community Health Center", type |-> "clinic",
        state |-> "MA", address |-> NULL,
        latitude |-> NoCoord, longitude |-> NoCoord] >>

aiims_list ==
    << [name |-> "All India Institute of Medical Sciences, New Delhi",
        type |-> "academic_medical_center",
        state |-> "Delhi", address |-> NULL,
        latitude |-> NoCoord, longitude |-> NoCoord],
       [name |-> "AIIMS Bhopal", type |-> "academic_medical_center",
        state |-> "Madhya Pradesh", address |-> NULL,
        latitude |-> NoCoord, longitude |-> NoCoord] >>

csds_list ==
    << [name |-> "Provincial Hospital - Beijing", type |-> "hospital",
        state |-> "Beijing", address |-> NULL,
        latitude |-> NoCoord, longitude |-> NoCoord],
       [name |-> "Provincial Hospital - Tianjin", type |-> "hospital",
        state |-> "Tianjin", address |-> NULL,
        latitude |-> NoCoord, longitude |-> NoCoord] >>

fetch_teaching_hospitals_fallback == Truncate(teaching_hospitals)
fetch_clinics_fallback == Truncate(fallback_clinics)
fetch_aiims == Truncate(aiims_list)
fetch_hospitals_csds == Truncate(csds_list)

(***************************************************************************)
(* The source adapters of each country, in the order of fetch_data.        *)
(***************************************************************************)
AdapterNames ==
    [c \in Countries |->
        CASE c = "USA" -> << "fetch_vet_nifa", "fetch_avma_vet", "fetch_md_lcme",
                             "fetch_do_aacom", "fetch_hospitals_cms",
                             "fetch_teaching_cms", "fetch_clinics_hrsa" >>
          [] c = "IND" -> << "fetch_med_nmc", "fetch_vet_vci",
                             "fetch_hospitals_cghs", "fetch_hospitals_nhp",
                             "fetch_aiims", "fetch_hospitals_wiki",
                             "fetch_med_wiki", "fetch_vet_wiki" >>
          [] c = "CAN" -> << "fetch_vet_cvma", "fetch_avma_vet",
                             "fetch_med_cacms", "fetch_med_wiki",
                             "fetch_health_odhf", "fetch_research_hospitals" >>
          [] c = "CHN" -> << "fetch_avma_vet", "fetch_vet_wiki", "fetch_med_wiki",
                             "fetch_med_wdoms", "fetch_med_wcame",
                             "fetch_hospitals_wiki", "fetch_hospitals_nhc",
                             "fetch_hospitals_csds" >>]

NumAdapters(c) == Len(AdapterNames[c])

\* adapters that make no request and return a built-in list
IsStatic(a) == a \in {"fetch_aiims", "fetch_hospitals_csds"}

\* what an adapter returns when its requests or its parsing fail
OnFailure(a) ==
    CASE a = "fetch_teaching_cms" -> fetch_teaching_hospitals_fallback
      [] a = "fetch_clinics_hrsa" -> fetch_clinics_fallback
      [] a = "fetch_aiims"        -> fetch_aiims
      [] a = "fetch_hospitals_csds" -> fetch_hospitals_csds
      [] OTHER -> << >>

(***************************************************************************)
(* normalize of each extractor.                                            *)
(***************************************************************************)
\* Python truthiness of a field that is None, a str or NaN
Truthy(v) == v /= NULL /\ v /= ""

\* the value of a string of decimal digits
RECURSIVE DigitsValue(_)
DigitsValue(s) ==
    IF Len(s) = 0 THEN 0
    ELSE 10 * DigitsValue(SubSeq(s, 1, Len(s) - 1))
         + (IndexIn(Digits, Char(s, Len(s))) - 1)

\* does float(s) accept the string (a signed integer literal, blanks around)
IsNumeric(s) ==
    LET t == Strip(s)
        u == IF StartsWith(t, "-") THEN SubSeq(t, 2, Len(t)) ELSE t
    IN  Len(u) > 0 /\ DigitRun(u) = Len(u)

ParseNumber(s) ==
    LET t == Strip(s)
    IN  IF StartsWith(t, "-")
        THEN 0 - DigitsValue(SubSeq(t, 2, Len(t)))
        ELSE DigitsValue(t)

\* usa.py: if item.get(coord): try float(...) except None
usa_coord(c) ==
    IF c.k = "null" THEN c
    ELSE IF c.k = "num" THEN c
    ELSE IF c.v = "" THEN c
    ELSE IF IsNumeric(c.v) THEN NumCoord(ParseNumber(c.v))
    ELSE NoCoord

\* ind.py: state_mapping.get(state, state)
state_mapping(s) ==
    CASE s = "TN" -> "Tamil Nadu"
      [] s = "KA" -> "Karnataka"
      [] s = "MH" -> "Maharashtra"
      [] s = "GJ" -> "Gujarat"
      [] s = "RJ" -> "Rajasthan"
      [] s = "UP" -> "Uttar Pradesh"
      [] s = "WB" -> "West Bengal"
      [] s = "NCT of Delhi" -> "Delhi"
      [] s = "New Delhi" -> "Delhi"
      [] OTHER -> s

\* ind.py and chn.py: the cleaning of a name
clean_wiki_name(name) == Strip(RemoveRefs(RemoveEdit(name)))

\* does normalizing the item raise (a method of str applied to a non-str)
NormalizeRaises(c, item) ==
    CASE c = "USA" -> item.state = NONSTR \/ item.name = NONSTR
      [] c = "IND" -> item.name = NONSTR
      [] c = "CHN" -> item.name = NONSTR
      [] c = "CAN" -> FALSE

normalize_item(c, item) ==
    CASE c = "USA" ->
           [item EXCEPT
              !.state = IF Truthy(@) THEN Strip(@) ELSE @,
              !.name = IF Truthy(@) THEN Strip(CollapseSpaces(@)) ELSE @,
              !.latitude = usa_coord(@),
              !.longitude = usa_coord(@)]
      [] c = "IND" ->
           [item EXCEPT
              !.state = IF Truthy(@) THEN state_mapping(@) ELSE @,
              !.name = IF Truthy(@) THEN clean_wiki_name(@) ELSE @]
      [] c = "CHN" ->
           [item EXCEPT
              !.name = IF Truthy(@) THEN clean_wiki_name(@) ELSE @]
      [] c = "CAN" -> item

\* normalize(data): the cleaned list, unless an item raises
normalize(c, items) == [i \in 1..Len(items) |-> normalize_item(c, items[i])]

\* normalize that indexes the first item of the list before the loop
normalize_raises_on_empty(c, items) ==
    \/ Len(items) = 0
    \/ \E i \in 1..Len(items) : NormalizeRaises(c, items[i])

normalize_raises(c, items) ==
    \E i \in 1..Len(items) : NormalizeRaises(c, items[i])

(***************************************************************************)
(* The institutions table (setup_db.py create_tables) and the INSERT of    *)
(* insert_to_db.                                                           *)
(***************************************************************************)
\* a value as PostgreSQL stores it in a TEXT column
DbText(v) == IF v = NONSTR THEN "NaN" ELSE v

\* a value as PostgreSQL stores it in a DOUBLE PRECISION column
DbDouble(c) == IF c.k = "str" THEN NumCoord(ParseNumber(c.v)) ELSE c

\* the INSERT violates NOT NULL (name, type)
ViolatesNotNull(item) == item.name = NULL \/ item.type = NULL

\* a literal of the INSERT cannot be coerced to its column type
BadLiteral(item) ==
    \/ item.type /= NULL /\ item.type \notin InstitutionType
    \/ item.latitude.k = "str" /\ ~IsNumeric(item.latitude.v)
    \/ item.longitude.k = "str" /\ ~IsNumeric(item.longitude.v)

NewRow(id, c, item, time) ==
    [id |-> id, name |-> DbText(item.name), type |-> item.type,
     country |-> c, state |-> DbText(item.state),
     address |-> DbText(item.address),
     latitude |-> DbDouble(item.latitude),
     longitude |-> DbDouble(item.longitude),
     last_updated |-> time]

\* The loop of insert_to_db over items[i..], in one transaction.  st holds the
\* rows inserted so far, the next value of the id sequence, whether the
\* transaction is aborted by a failed statement, and inserted_count.
RECURSIVE InsertLoop(_, _, _, _, _)
InsertLoop(c, items, i, time, st) ==
    IF i > Len(items) THEN st
    ELSE LET item == items[i]
             after ==
               IF st.aborted
               THEN st
               ELSE IF BadLiteral(item)
               THEN [st EXCEPT !.aborted = TRUE]
               ELSE IF ViolatesNotNull(item)
               THEN [st EXCEPT !.aborted = TRUE, !.seq = @ + 1]
               ELSE [st EXCEPT
                       !.rows = @ \cup {NewRow(st.seq, c, item, time)},
                       !.seq = @ + 1,
                       !.count = @ + 1]
         IN  InsertLoop(c, items, i + 1, time, after)

insert_result(c, items, seq, time) ==
    InsertLoop(c, items, 1, time,
               [rows |-> {}, seq |-> seq, aborted |-> FALSE, count |-> 0])

\* conn.commit(): the rows of an aborted transaction are rolled back
Committed(res) == IF res.aborted THEN {} ELSE res.rows

(***************************************************************************)
(* needs_refresh and deduplicate over a table (a set of rows).             *)
(***************************************************************************)
RowsOf(tbl, c) == {row \in tbl : row.country = c}

\* SELECT MAX(last_updated) FROM institutions WHERE country = %s, when the
\* country has a row
max_last_updated(tbl, c) ==
    CHOOSE t \in {row.last_updated : row \in RowsOf(tbl, c)} :
        \A row \in RowsOf(tbl, c) : row.last_updated <= t

\* needs_refresh with >= in place of >: a table exactly refresh_days old is
\* refreshed
needs_refresh_at_limit(tbl, c, time, days) ==
    IF RowsOf(tbl, c) = {} THEN TRUE
    ELSE (time - max_last_updated(tbl, c)) >= days

\* needs_refresh without the WHERE country = %s
needs_refresh_any_country(tbl, c, time, days) ==
    IF tbl = {} THEN TRUE
    ELSE \A row \in tbl : (time - row.last_updated) > days

\* last is None or (datetime.now() - last) > timedelta(days=days)
needs_refresh(tbl, c, time, days) ==
    IF RowsOf(tbl, c) = {} THEN TRUE
    ELSE (time - max_last_updated(tbl, c)) > days

\* info['name'] + info['address'], with address or ''
Text(row) == row.name \o (IF row.address = NULL THEN "" ELSE row.address)

\* every record an adapter can return
AllRaw ==
    UNION Pools
    \cup RecordPool
    \cup {teaching_hospitals[i] : i \in 1..Len(teaching_hospitals)}
    \cup {fallback_clinics[i] : i \in 1..Len(fallback_clinics)}
    \cup {aiims_list[i] : i \in 1..Len(aiims_list)}
    \cup {csds_list[i] : i \in 1..Len(csds_list)}

\* the name + address texts a row of the table can have
Texts ==
    {Text(NewRow(0, c, normalize_item(c, item), 0)) :
        c \in Countries, item \in {r \in AllRaw : r.name /= NULL}}

\* fuzz.token_sort_ratio over the texts of the table, tabulated once: the
\* scores as a set of triples << s, t, token_sort_ratio(s, t) >>
Sorted == {<< t, process_and_sort(t) >> : t \in Texts}
ScoreTable ==
    {<< p[1], q[1], ratio(p[2], q[2]) >> : p \in Sorted, q \in Sorted}
Score(s, t) ==
    (CHOOSE e \in ScoreTable : e[1] = s /\ e[2] = t)[3]

\* deduplicate with the threshold 95 in place of 90
duplicates_of_above_95(rows) ==
    {r2.id : r2 \in {r \in rows :
                       \E r1 \in rows :
                          r1.id < r.id /\ Score(Text(r1), Text(r)) > 95}}

\* deduplicate with duplicates.append(id1) in place of duplicates.append(id2)
duplicates_of_lower_id(rows) ==
    {r1.id : r1 \in {r \in rows :
                       \E r2 \in rows :
                          r.id < r2.id /\ Score(Text(r), Text(r2)) > Threshold}}

\* deduplicate with "score >= 90" in place of "score > 90"
duplicates_of_at_least(rows) ==
    {r2.id : r2 \in {r \in rows :
                       \E r1 \in rows :
                          r1.id < r.id /\ Score(Text(r1), Text(r)) >= Threshold}}

\* the loop of deduplicate over the rows read by its SELECT: the ids
\* appended to duplicates
duplicates_of(rows) ==
    {r2.id : r2 \in {r \in rows :
                       \E r1 \in rows :
                          r1.id < r.id /\ Score(Text(r1), Text(r)) > Threshold}}

(***************************************************************************)
(* State of the pipeline.                                                  *)
(***************************************************************************)
\* the extractor instances (database sessions) that can be alive
Runs == {1}

VARIABLES
    now,          \* datetime.now(), in days
    web,          \* the records the upstream sources currently list
    table,        \* the committed rows of institutions
    next_id,      \* the next value of the SERIAL sequence of institutions.id
    starts,       \* number of runs started so far
    pc,           \* position of each run in BaseExtractor.run
    country,      \* self.country of each run
    force,        \* argument force of run
    refresh_days, \* argument refresh_days of run
    adapter,      \* index of the next adapter fetch_data calls
    data,         \* all_data, then the normalized list
    existing,     \* rows read by the SELECT of deduplicate
    conn_open,    \* is the connection of the run open
    raised,       \* did run re-raise an exception to its caller
    stale,        \* needs_refresh in the run: "NOT_CALLED", "STALE" or "FRESH"
    phases,       \* history: the phases the run has completed, in order
    table0        \* history: the table when the run started

pipeVars == << now, web, table, next_id, starts, pc, country, force,
              refresh_days, adapter, data, existing, conn_open, raised, stale,
              phases, table0 >>

(***************************************************************************)
(* State of one call of fetch_data, get_with_retry or                      *)
(* fetch_paginated_scrape, request by request.                             *)
(***************************************************************************)
VARIABLES
    entry,          \* the function under way: "none", "fetch_data",
                    \* "get_with_retry" or "fetch_paginated_scrape"
    f_country,      \* self.country of the extractor
    f_pc,           \* position in the function
    f_adapter,      \* index of the adapter fetch_data is calling
    f_step,         \* position in the body of the adapter
    all_data,       \* all_data of fetch_data
    ret,            \* the list the adapter is returning
    any_ok,         \* did a request of the current adapter succeed
    failed,         \* did the last request or parsing step of the current
                    \* adapter fail
    g_caller,       \* who called get_with_retry: "adapter", "page" or "entry"
    g_retries,      \* argument retries of get_with_retry
    g_factor,       \* argument backoff_factor of get_with_retry
    g_attempt,      \* attempt, the loop variable of get_with_retry
    g_backoff,      \* backoff
    g_result,       \* "PENDING", "RESPONSE" or "NONE"
    g_requests,     \* history: number of requests.get calls of this call
    g_sleeps,       \* history: the time.sleep durations of this call
    page,           \* page, the loop variable of fetch_paginated_scrape
    start_page,     \* argument start_page
    max_pages,      \* argument max_pages
    page_data,      \* data of fetch_paginated_scrape
    p_requested,    \* history: the pages requested, in order
    p_lists,        \* history: the records of each page that yielded some
    returned,       \* history: the list each adapter returned, in order
    some_exhausted  \* history: did a get_with_retry of this fetch_data
                    \* return None

fetchVars == << entry, f_country, f_pc, f_adapter, f_step, all_data, ret,
               any_ok, failed, g_caller, g_retries, g_factor, g_attempt,
               g_backoff, g_result, g_requests, g_sleeps, page, start_page,
               max_pages, page_data, p_requested, p_lists, returned,
               some_exhausted >>

(***************************************************************************)
(* State of two forced runs of one extractor over the same fetched batch   *)
(* (q_), and of one invocation of a command-line entry point over a list   *)
(* of country codes (b_).                                                  *)
(***************************************************************************)
VARIABLES
    q_country,   \* self.country
    q_raw,       \* what fetch_data returns, in both runs
    q_pc,        \* position in run
    q_run,       \* 1 in the first run, 2 in the second
    q_now,       \* datetime.now(), in days
    q_data,      \* normalized
    q_table,     \* the committed rows of institutions
    q_seq,       \* the next value of the SERIAL sequence
    q_before,    \* history: the table when insert_to_db was called
    q_count,     \* inserted_count when insert_to_db returns
    q_result,    \* what insert_to_db returned
    q_existing,  \* the rows read by the SELECT of deduplicate
    q_ids1,      \* history: the ids in the table after the first run
    b_entry,     \* the script: "extractors/main.py" or "run_extraction.py"
    b_codes,     \* the country codes of the command line
    b_pc,        \* position in the script
    b_i,         \* index of the code the loop is at
    b_valid,     \* valid_countries of run_extraction.py
    b_ran,       \* history: the countries whose extractor was run, in order
    b_failed,    \* history: the countries whose run raised
    b_errors,    \* history: the codes reported as unknown
    c_country,   \* the country both sessions extract
    c_web,       \* what fetch_data returns to a session
    c_now,       \* datetime.now(), in days
    c_starts,    \* how many runs were started
    c_table,     \* the committed rows of institutions
    c_seq,       \* the next value of the SERIAL sequence
    c_ever,      \* history: every row ever committed
    c_pc,        \* per session: position in run
    c_conn,      \* per session: cursor and connection are open
    c_data,      \* per session: data, then normalized
    c_pending,   \* per session: the rows of its INSERTs, uncommitted at first
    c_existing,  \* per session: the rows read by the SELECT of deduplicate
    c_table0,    \* per session, history: the committed table at the call
    c_at,        \* per session, history: where the run raised or was killed
    c_late,      \* per session, history: called after an interrupted run
    c_report     \* per session: the last result recorded by the batch runner

recordVars == << q_country, q_raw, q_pc, q_run, q_now, q_data, q_table, q_seq,
                q_before, q_count, q_result, q_existing, q_ids1 >>
cliVars == << b_entry, b_codes, b_pc, b_i, b_valid, b_ran, b_failed,
             b_errors >>
concVars == << c_country, c_web, c_now, c_starts, c_table, c_seq, c_ever,
              c_pc, c_conn, c_data, c_pending, c_existing, c_table0, c_at,
              c_late, c_report >>
auxVars == << recordVars, cliVars, concVars >>

vars == << pipeVars, fetchVars, auxVars >>

\* what a Python function returns: None, or an int
NoneValue == [k |-> "none"]
IntValue(n) == [k |-> "int", v |-> n]

\* the state at the call of run(force=True) on an empty table
RecordState(c, batch, at) ==
    /\ q_country = c
    /\ q_raw = batch
    /\ q_pc = at
    /\ q_run = 1
    /\ q_now = 0
    /\ q_data = << >>
    /\ q_table = {}
    /\ q_seq = 1
    /\ q_before = {}
    /\ q_count = 0
    /\ q_result = NoneValue
    /\ q_existing = {}
    /\ q_ids1 = {}

\* the state at the start of a script
CliState(script, codes, at) ==
    /\ b_entry = script
    /\ b_codes = codes
    /\ b_pc = at
    /\ b_i = 1
    /\ b_valid = << >>
    /\ b_ran = << >>
    /\ b_failed = {}
    /\ b_errors = << >>

\* the processes that run an extractor, each with its own connection
Sessions == {1, 2}

\* before any session has called run, on an empty table
ConcState(c, batch) ==
    /\ c_country = c
    /\ c_web = batch
    /\ c_now = 0
    /\ c_starts = 0
    /\ c_table = {}
    /\ c_seq = 1
    /\ c_ever = {}
    /\ c_pc = [p \in Sessions |-> "IDLE"]
    /\ c_conn = [p \in Sessions |-> FALSE]
    /\ c_data = [p \in Sessions |-> << >>]
    /\ c_pending = [p \in Sessions |-> {}]
    /\ c_existing = [p \in Sessions |-> {}]
    /\ c_table0 = [p \in Sessions |-> {}]
    /\ c_at = [p \in Sessions |-> "none"]
    /\ c_late = [p \in Sessions |-> FALSE]
    /\ c_report = [p \in Sessions |-> "none"]

ConcIdle == ConcState("USA", << >>)
RecordIdle == RecordState("USA", << >>, "IDLE")
CliIdle == CliState("none", << >>, "IDLE")

\* the state at the call of a fetch function
FetchState(e, c, at, caller, retries, factor, first, count) ==
    /\ entry = e
    /\ f_country = c
    /\ f_pc = at
    /\ f_adapter = 1
    /\ f_step = 1
    /\ all_data = << >>
    /\ ret = << >>
    /\ any_ok = FALSE
    /\ failed = FALSE
    /\ g_caller = caller
    /\ g_retries = retries
    /\ g_factor = factor
    /\ g_attempt = 0
    /\ g_backoff = factor
    /\ g_result = "PENDING"
    /\ g_requests = 0
    /\ g_sleeps = << >>
    /\ page = first
    /\ start_page = first
    /\ max_pages = count
    /\ page_data = << >>
    /\ p_requested = << >>
    /\ p_lists = << >>
    /\ returned = << >>
    /\ some_exhausted = FALSE

\* no fetch function is under way
FetchIdle == FetchState("none", "USA", "IDLE", "adapter", 3, 1, 1, 10)

\* the states in which a run is over
Terminal == {"SKIPPED", "DONE", "FAILED"}

\* the pipeline before its first run
PipeInit(pools) ==
    /\ now = 0
    /\ web \in pools
    /\ table = {}
    /\ next_id = 1
    /\ starts = 0
    /\ pc = [r \in Runs |-> "IDLE"]
    /\ country = [r \in Runs |-> "USA"]
    /\ force = [r \in Runs |-> FALSE]
    /\ refresh_days = [r \in Runs |-> 1]
    /\ adapter = [r \in Runs |-> 1]
    /\ data = [r \in Runs |-> << >>]
    /\ existing = [r \in Runs |-> {}]
    /\ conn_open = [r \in Runs |-> FALSE]
    /\ raised = [r \in Runs |-> FALSE]
    /\ stale = [r \in Runs |-> "NOT_CALLED"]
    /\ phases = [r \in Runs |-> << >>]
    /\ table0 = [r \in Runs |-> {}]

Init == PipeInit(Pools) /\ FetchIdle /\ RecordIdle /\ CliIdle /\ ConcIdle

(***************************************************************************)
(* What one adapter can return to fetch_data.                              *)
(***************************************************************************)
\* the non-empty lists of at most n records of the pool
Listings(pool, n) ==
    UNION {[1..k -> pool] : k \in 1..Min(n, MaxListing)}

AdapterResults(a, pool, room) ==
    IF IsStatic(a) THEN {OnFailure(a)}
    ELSE IF a = "fetch_clinics_hrsa"
    THEN {OnFailure(a)} \cup Listings(pool, room)
    ELSE {OnFailure(a), << >>} \cup Listings(pool, room)

(***************************************************************************)
(* The run of one extractor: BaseExtractor.__init__ and BaseExtractor.run. *)
(***************************************************************************)
Quiet == \A r \in Runs : pc[r] \in {"IDLE"} \cup Terminal

\* a day passes between two runs
Tick ==
    /\ Quiet
    /\ now < MaxTime
    /\ now' = now + 1
    /\ UNCHANGED << web, table, next_id, starts, pc, country, force,
                    refresh_days, adapter, data, existing, conn_open, raised,
                    stale, phases, table0 >>
    /\ UNCHANGED << fetchVars, auxVars >>

\* extractor_class() and the call of run(force, refresh_days)
Start(r) ==
    /\ Quiet
    /\ starts < MaxStarts
    /\ next_id <= MaxId
    /\ \E c \in Countries, f \in BOOLEAN, d \in 1..MaxRefreshDays :
          /\ country' = [country EXCEPT ![r] = c]
          /\ force' = [force EXCEPT ![r] = f]
          /\ refresh_days' = [refresh_days EXCEPT ![r] = d]
    /\ starts' = starts + 1
    /\ pc' = [pc EXCEPT ![r] = "CHECK_FRESHNESS"]
    /\ conn_open' = [conn_open EXCEPT ![r] = TRUE]
    /\ raised' = [raised EXCEPT ![r] = FALSE]
    /\ stale' = [stale EXCEPT ![r] = "NOT_CALLED"]
    /\ adapter' = [adapter EXCEPT ![r] = 1]
    /\ data' = [data EXCEPT ![r] = << >>]
    /\ existing' = [existing EXCEPT ![r] = {}]
    /\ phases' = [phases EXCEPT ![r] = << >>]
    /\ table0' = [table0 EXCEPT ![r] = table]
    /\ UNCHANGED << now, web, table, next_id >>
    /\ UNCHANGED << fetchVars, auxVars >>

\* if force or self.needs_refresh(days=refresh_days): ... else: ... finally close
CheckFreshness(r) ==
    /\ pc[r] = "CHECK_FRESHNESS"
    /\ LET refresh == needs_refresh(table, country[r], now, refresh_days[r])
       IN  /\ stale' = [stale EXCEPT ![r] =
                          IF force[r] THEN "NOT_CALLED"
                          ELSE IF refresh THEN "STALE" ELSE "FRESH"]
           /\ IF force[r] \/ refresh
              THEN /\ pc' = [pc EXCEPT ![r] = "EXTRACTING"]
                   /\ UNCHANGED conn_open
              ELSE /\ pc' = [pc EXCEPT ![r] = "SKIPPED"]
                   /\ conn_open' = [conn_open EXCEPT ![r] = FALSE]
    /\ UNCHANGED << now, web, table, next_id, starts, country, force,
                    refresh_days, adapter, data, existing, raised, phases, table0 >>
    /\ UNCHANGED << fetchVars, auxVars >>

\* how many more records the upstream sources may still list to run r
Room(r) == Min(MaxFetched - Len(data[r]), MaxId + 1 - next_id - Len(data[r]))

\* fetch_data returning after its first adapter, while insert_to_db has
\* started on what it returned
FetchAdapter_insert_early(r) ==
    /\ pc[r] = "EXTRACTING"
    /\ \E result \in AdapterResults(AdapterNames[country[r]][adapter[r]], web,
                                     Room(r)) :
          data' = [data EXCEPT ![r] = @ \o result]
    /\ adapter' = [adapter EXCEPT ![r] = @ + 1]
    /\ pc' = [pc EXCEPT ![r] = "PERSISTING"]
    /\ phases' = [phases EXCEPT ![r] = Append(@, "fetch")]
    /\ UNCHANGED << now, web, table, next_id, starts, country, force,
                    refresh_days, existing, conn_open, raised, stale, table0 >>
    /\ UNCHANGED << fetchVars, auxVars >>

\* one line "all_data += self.fetch_x() or []" of fetch_data
FetchAdapter(r) ==
    /\ pc[r] = "EXTRACTING"
    /\ LET i == adapter[r]
           a == AdapterNames[country[r]][i]
       IN  /\ \E result \in AdapterResults(a, web, Room(r)) :
                 data' = [data EXCEPT ![r] = @ \o result]
           /\ adapter' = [adapter EXCEPT ![r] = i + 1]
           /\ IF i = NumAdapters(country[r])
              THEN /\ pc' = [pc EXCEPT ![r] = "NORMALIZING"]
                   /\ phases' = [phases EXCEPT ![r] = Append(@, "fetch")]
              ELSE UNCHANGED << pc, phases >>
    /\ UNCHANGED << now, web, table, next_id, starts, country, force,
                    refresh_days, existing, conn_open, raised, stale, table0 >>
    /\ UNCHANGED << fetchVars, auxVars >>

\* normalized = self.normalize(data); an exception is re-raised after close
Normalize(r) ==
    /\ pc[r] = "NORMALIZING"
    /\ IF normalize_raises(country[r], data[r])
       THEN /\ pc' = [pc EXCEPT ![r] = "FAILED"]
            /\ raised' = [raised EXCEPT ![r] = TRUE]
            /\ conn_open' = [conn_open EXCEPT ![r] = FALSE]
            /\ UNCHANGED << data, phases >>
       ELSE /\ pc' = [pc EXCEPT ![r] = "PERSISTING"]
            /\ data' = [data EXCEPT ![r] = normalize(country[r], @)]
            /\ phases' = [phases EXCEPT ![r] = Append(@, "normalize")]
            /\ UNCHANGED << raised, conn_open >>
    /\ UNCHANGED << now, web, table, next_id, starts, country, force,
                    refresh_days, adapter, existing, stale,
                    table0 >>
    /\ UNCHANGED << fetchVars, auxVars >>

\* insert_to_db that also resets last_updated of the rows the country
\* already has
InsertToDb_resets_old(r) ==
    /\ pc[r] = "PERSISTING"
    /\ LET res == insert_result(country[r], data[r], next_id, now)
       IN  /\ table' = {IF row.country = country[r]
                         THEN [row EXCEPT !.last_updated = 0]
                         ELSE row : row \in table}
                        \cup Committed(res)
           /\ next_id' = res.seq
    /\ pc' = [pc EXCEPT ![r] = "DEDUPLICATING"]
    /\ phases' = [phases EXCEPT ![r] = Append(@, "insert")]
    /\ UNCHANGED << now, web, starts, country, force, refresh_days, adapter,
                    data, existing, conn_open, raised, stale, table0 >>
    /\ UNCHANGED << fetchVars, auxVars >>

\* self.insert_to_db(normalized)
InsertToDb(r) ==
    /\ pc[r] = "PERSISTING"
    /\ LET res == insert_result(country[r], data[r], next_id, now)
       IN  /\ table' = table \cup Committed(res)
           /\ next_id' = res.seq
    /\ pc' = [pc EXCEPT ![r] = "DEDUPLICATING"]
    /\ phases' = [phases EXCEPT ![r] = Append(@, "insert")]
    /\ UNCHANGED << now, web, starts, country, force, refresh_days, adapter,
                    data, existing, conn_open, raised, stale, table0 >>
    /\ UNCHANGED << fetchVars, auxVars >>

\* self.deduplicate(): the SELECT
DedupSelect(r) ==
    /\ pc[r] = "DEDUPLICATING"
    /\ existing' = [existing EXCEPT ![r] = RowsOf(table, country[r])]
    /\ pc' = [pc EXCEPT ![r] = "DEDUP_SCANNED"]
    /\ UNCHANGED << now, web, table, next_id, starts, country, force,
                    refresh_days, adapter, data, conn_open, raised, stale, phases, table0 >>
    /\ UNCHANGED << fetchVars, auxVars >>

\* deduplicate whose DELETE names the duplicates by name and address
\* instead of by id
DedupDelete_by_text(r) ==
    /\ pc[r] = "DEDUP_SCANNED"
    /\ table' = {row \in table :
                    ~ \E dup \in existing[r] :
                         /\ dup.id \in duplicates_of(existing[r])
                         /\ Text(dup) = Text(row)}
    /\ pc' = [pc EXCEPT ![r] = "DONE"]
    /\ phases' = [phases EXCEPT ![r] = Append(@, "deduplicate")]
    /\ conn_open' = [conn_open EXCEPT ![r] = FALSE]
    /\ UNCHANGED << now, web, next_id, starts, country, force, refresh_days,
                    adapter, data, existing, raised, stale,
                    table0 >>
    /\ UNCHANGED << fetchVars, auxVars >>

\* self.deduplicate(): the scan of the pairs and the DELETE; then run
\* returns through finally: self.close()
DedupDelete(r) ==
    /\ pc[r] = "DEDUP_SCANNED"
    /\ table' = {row \in table : row.id \notin duplicates_of(existing[r])}
    /\ pc' = [pc EXCEPT ![r] = "DONE"]
    /\ phases' = [phases EXCEPT ![r] = Append(@, "deduplicate")]
    /\ conn_open' = [conn_open EXCEPT ![r] = FALSE]
    /\ UNCHANGED << now, web, next_id, starts, country, force, refresh_days,
                    adapter, data, existing, raised, stale,
                    table0 >>
    /\ UNCHANGED << fetchVars, auxVars >>

Next ==
    \/ Tick
    \/ \E r \in Runs : Start(r)
    \/ \E r \in Runs : CheckFreshness(r)
    \/ \E r \in Runs : FetchAdapter(r)
    \/ \E r \in Runs : Normalize(r)
    \/ \E r \in Runs : InsertToDb(r)
    \/ \E r \in Runs : DedupSelect(r)
    \/ \E r \in Runs : DedupDelete(r)

Spec == Init /\ [][Next]_vars

(***************************************************************************)
(* The bodies of the source adapters, as the requests and parsing steps    *)
(* they make.  A step names where control goes for each outcome: to        *)
(* another step, or to a return of the adapter.                            *)
(***************************************************************************)
\* arguments of the direct calls of get_with_retry
MaxRetriesArg == 3
MaxFactorArg == 2
\* arguments of the direct calls of fetch_paginated_scrape
MaxStartPage == 1
MaxPagesArg == 2

\* the default of the parameter retries of get_with_retry
DefaultRetries == 3
\* max_pages of the call in fetch_med_wdoms
WdomsMaxPages == 20

Goto(n) == << "step", n >>
\* return data
RetData == << "data", 0 >>
\* return []
RetEmpty == << "empty", 0 >>
\* return the fallback list
RetFallback == << "fallback", 0 >>

\* response = self.get_with_retry(url, retries=n)
Get(n, ok, fail) == [op |-> "get", retries |-> n, ok |-> ok, fail |-> fail]
\* requests.post(...)
Post(ok, fail) == [op |-> "post", ok |-> ok, fail |-> fail]
\* the search of a page for the link to follow
Scan(found, none, raise) ==
    [op |-> "scan", found |-> found, none |-> none, raise |-> raise]
\* the parsing of a response into records
Parse(some, none, raise) ==
    [op |-> "parse", some |-> some, none |-> none, raise |-> raise]
\* self.fetch_paginated_scrape(base_url, max_pages=n, parser=parser)
Paginate(n) == [op |-> "paginate", max_pages |-> n]

\* an adapter whose except clause returns the records parsed so far
SimpleAdapter_keeps_partial ==
    << Get(DefaultRetries, Goto(2), RetEmpty),
       Parse(RetData, RetEmpty, RetData) >>

\* one request, the parsing of its response, [] on any failure
SimpleAdapter ==
    << Get(DefaultRetries, Goto(2), RetEmpty),
       Parse(RetData, RetEmpty, RetEmpty) >>

\* a page, a link found on it, the document behind the link
LinkedAdapter ==
    << Get(DefaultRetries, Goto(2), RetEmpty),
       Scan(Goto(3), RetEmpty, RetEmpty),
       Get(DefaultRetries, Goto(4), RetEmpty),
       Parse(RetData, RetEmpty, RetEmpty) >>

Program(a) ==
    CASE a = "fetch_avma_vet" -> LinkedAdapter
      [] a = "fetch_hospitals_nhp" -> LinkedAdapter
      [] a = "fetch_hospitals_cms" ->
           << Get(1, Goto(2), Goto(3)), Parse(RetData, Goto(3), Goto(3)),
              Get(1, Goto(4), Goto(5)), Parse(RetData, Goto(5), Goto(5)),
              Get(1, Goto(6), Goto(7)), Parse(RetData, Goto(7), Goto(7)),
              Get(1, Goto(8), RetEmpty), Parse(RetData, RetEmpty, RetEmpty) >>
      [] a = "fetch_teaching_cms" ->
           << Get(1, Goto(4), Goto(2)),
              Get(1, Goto(4), Goto(3)),
              Get(1, Goto(4), RetFallback),
              Parse(RetData, RetEmpty, RetFallback) >>
      [] a = "fetch_clinics_hrsa" ->
           << Get(2, Goto(2), Goto(3)), Parse(RetData, Goto(3), Goto(3)),
              Get(2, Goto(4), RetFallback),
              Parse(RetData, RetFallback, RetFallback) >>
      [] a = "fetch_med_nmc" ->
           << Get(DefaultRetries, Goto(2), RetEmpty),
              Post(Goto(3), Goto(4)),
              Parse(RetData, RetEmpty, Goto(4)),
              Get(DefaultRetries, Goto(5), RetEmpty),
              Parse(RetData, RetEmpty, RetEmpty) >>
      [] a = "fetch_med_wdoms" -> << Paginate(WdomsMaxPages) >>
      [] a = "fetch_aiims" -> << >>
      [] a = "fetch_hospitals_csds" -> << >>
      [] OTHER -> SimpleAdapter

\* 2^k
RECURSIVE Pow2(_)
Pow2(k) == IF k = 0 THEN 1 ELSE 2 * Pow2(k - 1)

\* the concatenation of a sequence of lists
RECURSIVE Flatten(_)
Flatten(lists) ==
    IF Len(lists) = 0 THEN << >>
    ELSE Head(lists) \o Flatten(Tail(lists))

(***************************************************************************)
(* fetch_data, the adapters, get_with_retry and fetch_paginated_scrape,    *)
(* one request or parsing step at a time.                                  *)
(***************************************************************************)
CurrentAdapter == AdapterNames[f_country][f_adapter]
CurrentStep == Program(CurrentAdapter)[f_step]

\* how many more records the upstream sources may still list
FetchRoom == MaxFetched - Len(all_data) - Len(page_data)

\* control leaves a step of the adapter for the given label; parsed is the
\* list the step has built
Leave(label, parsed) ==
    IF label[1] = "step"
    THEN /\ f_step' = label[2]
         /\ f_pc' = "STEP"
         /\ UNCHANGED ret
    ELSE /\ f_pc' = "RETURNING"
         /\ ret' = (CASE label[1] = "data" -> parsed
                      [] label[1] = "empty" -> << >>
                      [] label[1] = "fallback" -> OnFailure(CurrentAdapter))
         /\ UNCHANGED f_step

\* the entry of get_with_retry: backoff = backoff_factor
EnterGet(caller, retries, factor) ==
    /\ g_caller' = caller
    /\ g_retries' = retries
    /\ g_factor' = factor
    /\ g_attempt' = 0
    /\ g_backoff' = factor
    /\ g_result' = "PENDING"
    /\ g_requests' = 0
    /\ g_sleeps' = << >>
    /\ f_pc' = "GET"

\* for attempt in range(retries - 1)
attempts_left_one_short == g_attempt < g_retries - 1

\* for attempt in range(retries): is there another attempt
attempts_left == g_attempt < g_retries

\* the backoff left as it is
next_backoff_constant(b) == b

\* backoff *= 2
next_backoff(b) == b * 2

\* range(start_page, start_page + max_pages + 1)
page_in_range_one_more == page <= start_page + max_pages

\* for page in range(start_page, start_page + max_pages): is there
\* another page
page_in_range == page < start_page + max_pages

\* all_data = ... in place of all_data += ...
aggregate_overwrite(collected, result) == result

\* all_data += result or []
aggregate(collected, result) == collected \o result

getVars == << g_caller, g_retries, g_factor, g_attempt, g_backoff, g_result,
             g_requests, g_sleeps >>
pageVars == << page, start_page, max_pages, page_data, p_requested, p_lists >>

\* fetch_data calls its next adapter
CallAdapter ==
    /\ f_pc = "CALL"
    /\ any_ok' = FALSE
    /\ failed' = FALSE
    /\ IF Program(CurrentAdapter) = << >>
       THEN /\ f_pc' = "RETURNING"
            /\ ret' = OnFailure(CurrentAdapter)
            /\ UNCHANGED f_step
       ELSE /\ f_pc' = "STEP"
            /\ f_step' = 1
            /\ UNCHANGED ret
    /\ UNCHANGED << entry, f_country, f_adapter, all_data, returned,
                    some_exhausted >>
    /\ UNCHANGED << getVars, pageVars, pipeVars, auxVars >>

\* the adapter calls get_with_retry
StepGet ==
    /\ f_pc = "STEP"
    /\ CurrentStep.op = "get"
    /\ EnterGet("adapter", CurrentStep.retries, 1)
    /\ UNCHANGED << entry, f_country, f_adapter, f_step, all_data, ret, any_ok,
                    failed, returned, some_exhausted >>
    /\ UNCHANGED << pageVars, pipeVars, auxVars >>

\* one iteration of the loop of get_with_retry: the request succeeds and
\* the response is returned, or it raises RequestException
HttpAttempt ==
    /\ f_pc = "GET"
    /\ attempts_left
    /\ g_requests' = g_requests + 1
    /\ \/ /\ g_result' = "RESPONSE"
          /\ f_pc' = "GOT"
          /\ UNCHANGED << g_attempt, g_backoff, g_sleeps >>
       \/ /\ g_attempt' = g_attempt + 1
          /\ IF g_attempt < g_retries - 1
             THEN /\ g_sleeps' = Append(g_sleeps, g_backoff)
                  /\ g_backoff' = next_backoff(g_backoff)
             ELSE UNCHANGED << g_sleeps, g_backoff >>
          /\ UNCHANGED << g_result, f_pc >>
    /\ UNCHANGED << g_caller, g_retries, g_factor >>
    /\ UNCHANGED << entry, f_country, f_adapter, f_step, all_data, ret, any_ok,
                    failed, returned, some_exhausted >>
    /\ UNCHANGED << pageVars, pipeVars, auxVars >>

\* the loop of get_with_retry is over: return None
GetExhausted ==
    /\ f_pc = "GET"
    /\ ~attempts_left
    /\ g_result' = "NONE"
    /\ f_pc' = "GOT"
    /\ UNCHANGED << g_caller, g_retries, g_factor, g_attempt, g_backoff,
                    g_requests, g_sleeps >>
    /\ UNCHANGED << entry, f_country, f_adapter, f_step, all_data, ret, any_ok,
                    failed, returned, some_exhausted >>
    /\ UNCHANGED << pageVars, pipeVars, auxVars >>

\* the adapter tests the result of get_with_retry
AfterGet ==
    /\ f_pc = "GOT"
    /\ g_caller = "adapter"
    /\ IF g_result = "RESPONSE"
       THEN /\ any_ok' = TRUE
            /\ failed' = FALSE
            /\ Leave(CurrentStep.ok, << >>)
            /\ UNCHANGED some_exhausted
       ELSE /\ failed' = TRUE
            /\ some_exhausted' = TRUE
            /\ Leave(CurrentStep.fail, << >>)
            /\ UNCHANGED any_ok
    /\ UNCHANGED << entry, f_country, f_adapter, all_data, returned >>
    /\ UNCHANGED << getVars, pageVars, pipeVars, auxVars >>

\* requests.post succeeds with status 200, or not
StepPost ==
    /\ f_pc = "STEP"
    /\ CurrentStep.op = "post"
    /\ \/ /\ any_ok' = TRUE
          /\ failed' = FALSE
          /\ Leave(CurrentStep.ok, << >>)
       \/ /\ failed' = TRUE
          /\ Leave(CurrentStep.fail, << >>)
          /\ UNCHANGED any_ok
    /\ UNCHANGED << entry, f_country, f_adapter, all_data, returned,
                    some_exhausted >>
    /\ UNCHANGED << getVars, pageVars, pipeVars, auxVars >>

\* the adapter looks for a link in the page: found, not found, or an
\* exception
StepScan ==
    /\ f_pc = "STEP"
    /\ CurrentStep.op = "scan"
    /\ \/ /\ Leave(CurrentStep.found, << >>)
          /\ failed' = FALSE
       \/ /\ Leave(CurrentStep.none, << >>)
          /\ failed' = FALSE
       \/ /\ failed' = TRUE
          /\ Leave(CurrentStep.raise, << >>)
    /\ UNCHANGED << entry, f_country, f_adapter, all_data, any_ok, returned,
                    some_exhausted >>
    /\ UNCHANGED << getVars, pageVars, pipeVars, auxVars >>

\* the adapter parses a response: some records, none, or an exception
\* after it has parsed some or none
StepParse ==
    /\ f_pc = "STEP"
    /\ CurrentStep.op = "parse"
    /\ \/ /\ \E parsed \in Listings(web, FetchRoom) :
                Leave(CurrentStep.some, parsed)
          /\ failed' = FALSE
       \/ /\ Leave(CurrentStep.none, << >>)
          /\ failed' = FALSE
       \/ /\ failed' = TRUE
          /\ \E partial \in Listings(web, FetchRoom) \cup {<< >>} :
                Leave(CurrentStep.raise, partial)
    /\ UNCHANGED << entry, f_country, f_adapter, all_data, any_ok, returned,
                    some_exhausted >>
    /\ UNCHANGED << getVars, pageVars, pipeVars, auxVars >>

\* the adapter calls fetch_paginated_scrape (start_page defaults to 1)
StepPaginate ==
    /\ f_pc = "STEP"
    /\ CurrentStep.op = "paginate"
    /\ start_page' = 1
    /\ page' = 1
    /\ max_pages' = CurrentStep.max_pages
    /\ page_data' = << >>
    /\ p_requested' = << >>
    /\ p_lists' = << >>
    /\ f_pc' = "PAGE"
    /\ UNCHANGED << entry, f_country, f_adapter, f_step, all_data, ret, any_ok,
                    failed, returned, some_exhausted >>
    /\ UNCHANGED << getVars, pipeVars, auxVars >>

\* for page in range(start_page, start_page + max_pages): request the page,
\* or leave the loop when the range is used up
PageLoop ==
    /\ f_pc = "PAGE"
    /\ IF page_in_range
       THEN /\ p_requested' = Append(p_requested, page)
            /\ EnterGet("page", DefaultRetries, 1)
       ELSE /\ f_pc' = "PAGE_DONE"
            /\ UNCHANGED << p_requested, getVars >>
    /\ UNCHANGED << page, start_page, max_pages, page_data, p_lists >>
    /\ UNCHANGED << entry, f_country, f_adapter, f_step, all_data, ret, any_ok,
                    failed, returned, some_exhausted >>
    /\ UNCHANGED << pipeVars, auxVars >>

\* the body of the loop after get_with_retry: break on no response, on a
\* page without records and on a parsing error; else keep the records
PageAfterGet ==
    /\ f_pc = "GOT"
    /\ g_caller = "page"
    /\ IF g_result = "NONE"
       THEN /\ f_pc' = "PAGE_DONE"
            /\ failed' = TRUE
            /\ some_exhausted' = TRUE
            /\ UNCHANGED << page, page_data, p_lists, any_ok >>
       ELSE /\ any_ok' = TRUE
            /\ UNCHANGED some_exhausted
            /\ \/ /\ \E page_records \in Listings(web, FetchRoom) :
                        /\ page_data' = page_data \o page_records
                        /\ p_lists' = Append(p_lists, page_records)
                  /\ page' = page + 1
                  /\ f_pc' = "PAGE"
                  /\ failed' = FALSE
               \/ /\ f_pc' = "PAGE_DONE"
                  /\ failed' = FALSE
                  /\ UNCHANGED << page, page_data, p_lists >>
               \/ /\ f_pc' = "PAGE_DONE"
                  /\ failed' = TRUE
                  /\ UNCHANGED << page, page_data, p_lists >>
    /\ UNCHANGED << start_page, max_pages, p_requested >>
    /\ UNCHANGED << entry, f_country, f_adapter, f_step, all_data, ret,
                    returned >>
    /\ UNCHANGED << getVars, pipeVars, auxVars >>

\* fetch_paginated_scrape returns data
PageReturn ==
    /\ f_pc = "PAGE_DONE"
    /\ ret' = page_data
    /\ f_pc' = IF entry = "fetch_paginated_scrape" THEN "RETURNED"
               ELSE "RETURNING"
    /\ UNCHANGED << entry, f_country, f_adapter, f_step, all_data, any_ok,
                    failed, returned, some_exhausted >>
    /\ UNCHANGED << getVars, pageVars, pipeVars, auxVars >>

\* all_data += (what the adapter returned) or []; after the last adapter
\* fetch_data returns all_data
ReturnAdapter ==
    /\ f_pc = "RETURNING"
    /\ all_data' = aggregate(all_data, ret)
    /\ returned' = Append(returned, ret)
    /\ page_data' = << >>
    /\ IF f_adapter = NumAdapters(f_country)
       THEN /\ f_pc' = "RETURNED"
            /\ UNCHANGED f_adapter
       ELSE /\ f_pc' = "CALL"
            /\ f_adapter' = f_adapter + 1
    /\ UNCHANGED << entry, f_country, f_step, ret, any_ok, failed,
                    some_exhausted >>
    /\ UNCHANGED << page, start_page, max_pages, p_requested, p_lists >>
    /\ UNCHANGED << getVars, pipeVars, auxVars >>

\* a call of fetch_data of one extractor, or a direct call of
\* get_with_retry or of fetch_paginated_scrape
InitFetch ==
    /\ PipeInit({ThresholdPool})
    /\ RecordIdle
    /\ CliIdle
    /\ ConcIdle
    /\ \/ \E c \in Countries :
             FetchState("fetch_data", c, "CALL", "adapter", DefaultRetries, 1,
                        1, 10)
       \/ \E n \in 0..MaxRetriesArg, b \in 1..MaxFactorArg :
             FetchState("get_with_retry", "USA", "GET", "entry", n, b, 1, 10)
       \/ \E first \in 0..MaxStartPage, count \in 0..MaxPagesArg :
             FetchState("fetch_paginated_scrape", "CHN", "PAGE", "page",
                        DefaultRetries, 1, first, count)

NextFetch ==
    \/ CallAdapter
    \/ StepGet
    \/ HttpAttempt
    \/ GetExhausted
    \/ AfterGet
    \/ StepPost
    \/ StepScan
    \/ StepParse
    \/ StepPaginate
    \/ PageLoop
    \/ PageAfterGet
    \/ PageReturn
    \/ ReturnAdapter

SpecFetch == InitFetch /\ [][NextFetch]_vars

(***************************************************************************)
(* Properties of BaseExtractor.run, needs_refresh and deduplicate.         *)
(***************************************************************************)
\* some row of country c in tbl was updated at most days before time
Fresh(tbl, c, time, days) ==
    \E row \in tbl : row.country = c /\ time - row.last_updated <= days

\* C1: a run with force = false on a country whose newest last_updated is
\* not older than refresh_days ends in SKIPPED, has called no adapter, has
\* normalized, inserted and deduplicated nothing, and leaves the table as it
\* was when the run started.
C1_FreshnessGate ==
    \A r \in Runs :
        ( /\ pc[r] \notin {"IDLE", "CHECK_FRESHNESS"}
          /\ ~force[r]
          /\ Fresh(table0[r], country[r], now, refresh_days[r]) )
        => /\ pc[r] = "SKIPPED"
           /\ adapter[r] = 1
           /\ data[r] = << >>
           /\ existing[r] = {}
           /\ phases[r] = << >>
           /\ table = table0[r]

\* a run without force was skipped on a country whose rows are fresh
C1_Witness ==
    \E r \in Runs :
        /\ pc[r] = "SKIPPED"
        /\ ~force[r]
        /\ Fresh(table, country[r], now, refresh_days[r])
        /\ table = table0[r]

\* C2: needs_refresh is true exactly when the country has no row or the
\* newest last_updated of its rows is more than refresh_days before now,
\* and the rows of the other countries do not change its result; the run
\* goes on to fetch exactly when force is set or needs_refresh is true.
C2_NeedsRefresh ==
    /\ \A c \in Countries, d \in 1..MaxRefreshDays :
          /\ needs_refresh(table, c, now, d)
               <=> ( \/ ~ \E row \in table : row.country = c
                     \/ \A row \in table :
                           row.country = c => now - row.last_updated > d )
          /\ \A others \in SUBSET {row \in table : row.country /= c} :
                needs_refresh(table \ others, c, now, d)
                  = needs_refresh(table, c, now, d)
    /\ \A r \in Runs :
          (pc[r] = "EXTRACTING" /\ ~force[r])
          => /\ stale[r] = "STALE"
             /\ ~Fresh(table, country[r], now, refresh_days[r])

\* needs_refresh has answered true for a country without rows while another
\* country has rows that are not older than refresh_days
C2_Witness ==
    \E r \in Runs :
        /\ stale[r] = "STALE"
        /\ pc[r] = "EXTRACTING"
        /\ ~ \E row \in table : row.country = country[r]
        /\ \E other \in table :
              /\ other.country /= country[r]
              /\ now - other.last_updated <= refresh_days[r]

\* the phases of run, in their order
PhaseOrder == << "fetch", "normalize", "insert", "deduplicate" >>

\* the number of phases a run has completed when it is at a position
Completed(at) ==
    CASE at \in {"IDLE", "CHECK_FRESHNESS", "SKIPPED", "EXTRACTING"} -> 0
      [] at \in {"NORMALIZING", "FAILED"} -> 1
      [] at = "PERSISTING" -> 2
      [] at \in {"DEDUPLICATING", "DEDUP_SCANNED"} -> 3
      [] at = "DONE" -> 4

\* C3: a run that is not skipped completes its phases in the order fetch
\* (all adapters), normalize, insert, deduplicate, each once and each only
\* after the one before; DONE and SKIPPED are terminal: the run completes no
\* phase and changes nothing after them.
C3_PhaseOrder ==
    /\ [](\A r \in Runs :
            /\ phases[r] = SubSeq(PhaseOrder, 1, Completed(pc[r]))
            /\ (pc[r] = "EXTRACTING" => adapter[r] <= NumAdapters(country[r]))
            /\ (Completed(pc[r]) >= 1
                  => adapter[r] = NumAdapters(country[r]) + 1))
    /\ [][\A r \in Runs :
            (pc[r] \in {"DONE", "SKIPPED"} /\ pc'[r] = pc[r])
            => /\ phases'[r] = phases[r]
               /\ table' = table
               /\ data'[r] = data[r]
               /\ adapter'[r] = adapter[r]]_vars
    /\ [][\A r \in Runs :
            (pc[r] \in {"DONE", "SKIPPED"} /\ pc'[r] /= pc[r])
            => /\ pc'[r] = "CHECK_FRESHNESS"
               /\ phases'[r] = << >>
               /\ starts' = starts + 1]_vars

\* a run has completed the four phases and has stored rows
C3_Witness ==
    \E r \in Runs :
        /\ pc[r] = "DONE"
        /\ phases[r] = PhaseOrder
        /\ \E row \in table : row.country = country[r]

\* C9: when deduplicate has completed for a country and nothing has been
\* written since, no two remaining rows of that country have a name +
\* address score above the threshold 90.
C9_NoSimilarPairLeft ==
    \A r \in Runs :
        pc[r] = "DONE"
        => \A r1 \in table, r2 \in table :
              ( /\ r1.country = country[r]
                /\ r2.country = country[r]
                /\ r1.id /= r2.id )
              => Score(Text(r1), Text(r2)) <= Threshold

\* deduplicate has deleted a row and has left at least two rows of the
\* country
C9_Witness ==
    \E r \in Runs :
        /\ pc[r] = "DONE"
        /\ existing[r] \ table /= {}
        /\ \E r1 \in table, r2 \in table :
              /\ r1.country = country[r]
              /\ r2.country = country[r]
              /\ r1.id /= r2.id

\* does row score above the threshold against a row of rows with a lower id
HasLowerTwin(rows, row) ==
    \E lower \in rows :
        /\ lower.id < row.id
        /\ Score(Text(lower), Text(row)) > Threshold

\* C10 as amended: of two rows of the same country whose score is strictly
\* above 90, deduplicate deletes the one with the higher id, and keeps the
\* one with the lower id unless that row itself scores above 90 against a
\* row with a still lower id; a row that scores above 90 against no row
\* with a lower id is kept.
C10_HigherIdDeleted ==
    \A r \in Runs :
        pc[r] = "DONE"
        => /\ \A r1 \in existing[r], r2 \in existing[r] :
                 ( /\ r1.id < r2.id
                   /\ Score(Text(r1), Text(r2)) > Threshold )
                 => /\ r2 \notin table
                    /\ r1 \in table <=> ~HasLowerTwin(existing[r], r1)
           /\ \A row \in existing[r] :
                 ~HasLowerTwin(existing[r], row) => row \in table

\* deduplicate has run over a chain: a row with a twin below it and a twin
\* above it
C10_Witness ==
    \E r \in Runs :
        /\ pc[r] = "DONE"
        /\ \E r1 \in existing[r], r2 \in existing[r] :
              /\ r1.id < r2.id
              /\ Score(Text(r1), Text(r2)) > Threshold
              /\ HasLowerTwin(existing[r], r1)

\* C10 as stated: of two rows of the same country whose score is at least
\* 90, after deduplicate exactly the one with the lower id remains.
C10_AsStated ==
    \A r \in Runs :
        pc[r] = "DONE"
        => \A r1 \in existing[r], r2 \in existing[r] :
              ( /\ r1.id < r2.id
                /\ Score(Text(r1), Text(r2)) >= Threshold )
              => /\ r1 \in table
                 /\ r2 \notin table

(***************************************************************************)
(* Properties of get_with_retry, fetch_paginated_scrape, the adapters and  *)
(* fetch_data.                                                             *)
(***************************************************************************)
\* an adapter that makes requests is returning to fetch_data
AdapterReturning ==
    /\ entry = "fetch_data"
    /\ f_pc = "RETURNING"
    /\ ~IsStatic(CurrentAdapter)

\* the list the adapter returns when its sources have failed
ListOnFailure(a) ==
    IF a = "fetch_teaching_cms" THEN fetch_teaching_hospitals_fallback
    ELSE IF a = "fetch_clinics_hrsa" THEN fetch_clinics_fallback
    ELSE << >>

\* get_with_retry returns None only after exactly retries failed requests,
\* and returns whenever all its requests have failed
ExhaustionReturnsNone ==
    /\ (g_result = "NONE" => g_requests = g_retries /\ g_attempt = g_retries)
    /\ (g_result = "RESPONSE" => g_attempt < g_retries)
    /\ g_requests <= g_retries
    /\ (f_pc = "GOT" => g_result \in {"NONE", "RESPONSE"})

\* fetch_data has called every adapter of the country when it returns, and
\* each adapter it has called has returned a list
AllAdaptersInvoked ==
    entry = "fetch_data"
    => /\ Len(returned) = IF f_pc = "RETURNED" THEN f_adapter ELSE f_adapter - 1
       /\ (f_pc = "RETURNED" => f_adapter = NumAdapters(f_country))
       /\ f_adapter \in 1..NumAdapters(f_country)

C5_BackoffSchedule ==
    /\ Len(g_sleeps) = Min(g_attempt, Max(g_retries - 1, 0))
    /\ \A k \in 1..Len(g_sleeps) : g_sleeps[k] = g_factor * Pow2(k - 1)
    /\ g_backoff = g_factor * Pow2(Len(g_sleeps))
    /\ (g_result = "RESPONSE"
          => /\ g_requests = g_attempt + 1
             /\ Len(g_sleeps) = g_attempt
             /\ f_pc /= "GET")
    /\ (g_result = "PENDING" => g_requests = g_attempt)

\* a call with backoff_factor 2 has slept twice and then failed for the
\* last time
C5_Witness ==
    /\ entry = "get_with_retry"
    /\ g_factor = 2
    /\ g_result = "NONE"
    /\ g_sleeps = << 2, 4 >>
    /\ g_requests = 3

\* fetch_paginated_scrape is under way or has just returned
InPagination ==
    \/ entry = "fetch_paginated_scrape"
    \/ /\ entry = "fetch_data"
       /\ CurrentAdapter = "fetch_med_wdoms"
       /\ f_pc \in {"PAGE", "GET", "GOT", "PAGE_DONE", "RETURNING"}

\* C6: fetch_paginated_scrape requests the pages start_page, start_page + 1,
\* ... in this order, at most max_pages of them, and stops at the first page
\* without records or whose request or parsing fails; it returns the records
\* of the pages before that one, concatenated in page order, and never
\* drops records it has collected.
C6_Pagination ==
    InPagination
    => /\ \A i \in 1..Len(p_requested) : p_requested[i] = start_page + i - 1
       /\ Len(p_requested) <= max_pages
       /\ Len(p_lists) <= Len(p_requested)
       /\ Len(p_requested) <= Len(p_lists) + 1
       /\ \A i \in 1..Len(p_lists) : p_lists[i] /= << >>
       /\ (f_pc \in {"PAGE", "GET", "GOT", "PAGE_DONE"}
             => page_data = Flatten(p_lists))
       /\ (f_pc = "PAGE" => Len(p_requested) = Len(p_lists))
       /\ (f_pc = "PAGE_DONE"
             => \/ Len(p_requested) = Len(p_lists) + 1
                \/ Len(p_requested) = max_pages)
       /\ (f_pc \in {"RETURNED", "RETURNING"} => ret = Flatten(p_lists))

\* a direct call with max_pages = 2 has returned the records of two pages
\* without requesting a third
C6_Witness ==
    /\ entry = "fetch_paginated_scrape"
    /\ f_pc = "RETURNED"
    /\ max_pages = 2
    /\ Len(p_requested) = 2
    /\ Len(p_lists) = 2
    /\ Len(ret) = 2

\* C7: for every country and every set of its adapters that fail,
\* fetch_data calls every adapter and returns; its result is the
\* concatenation, in the registered order, of the lists the adapters
\* returned, so it holds the records of every adapter that did not fail.
C7_AdapterIsolation ==
    entry = "fetch_data"
    => /\ all_data = Flatten(returned)
       /\ AllAdaptersInvoked
       /\ (f_pc /= "RETURNED" => ENABLED NextFetch)

\* fetch_data of a country without fallback lists has returned records
\* although a request of one of its adapters failed for good
C7_Witness ==
    /\ entry = "fetch_data"
    /\ f_country = "CAN"
    /\ f_pc = "RETURNED"
    /\ some_exhausted
    /\ all_data /= << >>
    /\ \E i \in 1..Len(returned) : returned[i] = << >>

MaxBatch == 3

Batches == UNION {[1..n -> RecordPool] : n \in 0..MaxBatch}

\* normalized = self.normalize(raw_data); an exception leaves run through
\* "except: raise"
RecNormalize ==
    /\ q_pc = "NORMALIZING"
    /\ IF normalize_raises(q_country, q_raw)
       THEN /\ q_pc' = "FAILED"
            /\ UNCHANGED q_data
       ELSE /\ q_pc' = "PERSISTING"
            /\ q_data' = normalize(q_country, q_raw)
    /\ UNCHANGED << q_country, q_raw, q_run, q_now, q_table, q_seq, q_before,
                    q_count, q_result, q_existing, q_ids1 >>
    /\ UNCHANGED << pipeVars, fetchVars, cliVars, concVars >>

\* self.insert_to_db(normalized): the loop, the commit, and the return
\* without a value
RecInsertToDb ==
    /\ q_pc = "PERSISTING"
    /\ LET res == insert_result(q_country, q_data, q_seq, q_now)
       IN  /\ q_table' = q_table \cup Committed(res)
           /\ q_seq' = res.seq
           /\ q_count' = res.count
    /\ q_before' = q_table
    /\ q_result' = NoneValue
    /\ q_pc' = "DEDUPLICATING"
    /\ UNCHANGED << q_country, q_raw, q_run, q_now, q_data, q_existing,
                    q_ids1 >>
    /\ UNCHANGED << pipeVars, fetchVars, cliVars, concVars >>

\* self.deduplicate(), and the return of run
RecDeduplicate ==
    /\ q_pc = "DEDUPLICATING"
    /\ LET rows == RowsOf(q_table, q_country)
           kept == {row \in q_table : row.id \notin duplicates_of(rows)}
       IN  /\ q_existing' = rows
           /\ q_table' = kept
           /\ q_ids1' = IF q_run = 1 THEN {row.id : row \in kept} ELSE q_ids1
    /\ q_pc' = "DONE"
    /\ UNCHANGED << q_country, q_raw, q_run, q_now, q_data, q_seq, q_before,
                    q_count, q_result >>
    /\ UNCHANGED << pipeVars, fetchVars, cliVars, concVars >>

\* the next day run(force=True) is called again and fetch_data returns the
\* same batch
RecRunAgain ==
    /\ q_pc = "DONE"
    /\ q_run = 1
    /\ q_run' = 2
    /\ q_now' = q_now + 1
    /\ q_data' = << >>
    /\ q_pc' = "NORMALIZING"
    /\ UNCHANGED << q_country, q_raw, q_table, q_seq, q_before, q_count,
                    q_result, q_existing, q_ids1 >>
    /\ UNCHANGED << pipeVars, fetchVars, cliVars, concVars >>

InitRecords ==
    /\ PipeInit({ThresholdPool})
    /\ FetchIdle
    /\ CliIdle
    /\ ConcIdle
    /\ \E c \in Countries, batch \in Batches :
          RecordState(c, batch, "NORMALIZING")

NextRecords ==
    \/ RecNormalize
    \/ RecInsertToDb
    \/ RecDeduplicate
    \/ RecRunAgain

SpecRecords == InitRecords /\ [][NextRecords]_vars

(***************************************************************************)
(* Claims about the rows deduplicate removes.                              *)
(***************************************************************************)
\* C11: deduplicate deletes a row of the country if and only if some row of
\* the same country with a strictly lower id, among the rows read at the
\* start of the pass, scores above the threshold against it; so two rows
\* that score at or below the threshold against each other and against
\* every row with a lower id are both retained.
C11_DeletedIffLowerTwin ==
    \A r \in Runs :
        pc[r] = "DONE"
        => /\ \A row \in existing[r] :
                 row \notin table <=> HasLowerTwin(existing[r], row)
           /\ \A r1 \in existing[r], r2 \in existing[r] :
                 ( /\ r1.id < r2.id
                   /\ Score(Text(r1), Text(r2)) =< Threshold
                   /\ ~HasLowerTwin(existing[r], r1)
                   /\ ~HasLowerTwin(existing[r], r2) )
                 => r1 \in table /\ r2 \in table

\* a pass that deleted a row and kept two rows that score exactly 90
\* against each other
C11_Witness ==
    \E r \in Runs :
        /\ pc[r] = "DONE"
        /\ \E row \in existing[r] : row \notin table
        /\ \E r1 \in table, r2 \in table :
              /\ r1 \in existing[r] /\ r2 \in existing[r]
              /\ r1.id < r2.id
              /\ Score(Text(r1), Text(r2)) = Threshold

\* C12: every row removed by deduplicate is a redundant copy of a row that
\* is retained: for each deleted row, a row of the same country survives
\* the pass and scores above the threshold against it, chains included.
C12_AsStated ==
    \A r \in Runs :
        pc[r] = "DONE"
        => \A gone \in existing[r] \ table :
              \E kept \in RowsOf(table, gone.country) :
                  Score(Text(kept), Text(gone)) > Threshold

(***************************************************************************)
(* Claims about insert_to_db and about two runs over the same batch.       *)
(***************************************************************************)
\* the natural key of a row
NaturalKey(row) == << row.country, row.name >>

\* C13: insert_to_db is insert-or-ignore by natural key: a record whose
\* (country, name) already exists in the table adds no row, and the rows
\* that existed keep their fields and last_updated.
C13_AsStated ==
    q_pc = "DEDUPLICATING"
    => /\ q_before \subseteq q_table
       /\ \A new \in q_table \ q_before :
             \A old \in q_before : NaturalKey(new) /= NaturalKey(old)

\* C14: running the pipeline twice for a country with identical adapter
\* outputs leaves, after the second run, the same number of rows and the
\* same retained ids as after the first, and the second run inserts no row.
C14_AsStated ==
    q_run = 2
    => /\ q_pc = "DEDUPLICATING" => q_table = q_before
       /\ q_pc = "DONE" => {row.id : row \in q_table} = q_ids1

\* the INSERT of the item, alone in a transaction, succeeds
ValidRecord(item) == ~BadLiteral(item) /\ ~ViolatesNotNull(item)

\* C15: a record whose INSERT fails is skipped alone: every valid record of
\* the same batch, before or after the failing one, is in the table when
\* insert_to_db returns.
C15_AsStated ==
    q_pc = "DEDUPLICATING"
    => \A i \in 1..Len(q_data) :
          ValidRecord(q_data[i])
          => \E row \in q_table \ q_before :
                /\ row.name = DbText(q_data[i].name)
                /\ row.type = q_data[i].type
                /\ row.last_updated = q_now

\* C16: insert_to_db returns to its caller the number of records it wrote,
\* the growth of the table's row count caused by the call.
C16_AsStated ==
    q_pc = "DEDUPLICATING"
    => q_result = IntValue(Cardinality(q_table) - Cardinality(q_before))

(***************************************************************************)
(* The command-line entry points over a list of country codes:             *)
(* extractors/main.py (the loop of __main__) and run_extraction.py (main   *)
(* and run_batch_extraction, without --report-only).                       *)
(***************************************************************************)
\* the longest list of codes on the command line
MaxCodes == 3

Scripts == {"extractors/main.py", "run_extraction.py"}

\* codes as typed: registered, registered in lower case, not registered
CodePool == {"USA", "can", "XXX"}

\* c.strip().upper() of the codes typed
StripUpper(code) ==
    CASE code = "can" -> "CAN"
      [] OTHER -> code

\* country in extractor_registry
Registered(code) == code \in Countries

\* extractors/main.py: a registered country; extractor.run may raise, which
\* is logged
MainRun ==
    /\ b_entry = "extractors/main.py"
    /\ b_pc = "LOOP"
    /\ b_i <= Len(b_codes)
    /\ Registered(b_codes[b_i])
    /\ b_ran' = Append(b_ran, b_codes[b_i])
    /\ \E ok \in BOOLEAN :
          b_failed' = IF ok THEN b_failed ELSE b_failed \cup {b_codes[b_i]}
    /\ b_i' = b_i + 1
    /\ UNCHANGED << b_entry, b_codes, b_pc, b_valid, b_errors >>
    /\ UNCHANGED << pipeVars, fetchVars, recordVars, concVars >>

\* extractors/main.py: a code outside the registry; logger.error and
\* sys.exit(1)
MainUnknown ==
    /\ b_entry = "extractors/main.py"
    /\ b_pc = "LOOP"
    /\ b_i <= Len(b_codes)
    /\ ~Registered(b_codes[b_i])
    /\ b_errors' = Append(b_errors, b_codes[b_i])
    /\ b_pc' = "EXIT_1"
    /\ UNCHANGED << b_entry, b_codes, b_i, b_valid, b_ran, b_failed >>
    /\ UNCHANGED << pipeVars, fetchVars, recordVars, concVars >>

\* extractors/main.py: the loop is over
MainEnd ==
    /\ b_entry = "extractors/main.py"
    /\ b_pc = "LOOP"
    /\ b_i > Len(b_codes)
    /\ b_pc' = "EXIT_0"
    /\ UNCHANGED << b_entry, b_codes, b_i, b_valid, b_ran, b_failed,
                    b_errors >>
    /\ UNCHANGED << pipeVars, fetchVars, recordVars, concVars >>

\* run_extraction.py main: one code of the validation loop
Validate ==
    /\ b_entry = "run_extraction.py"
    /\ b_pc = "VALIDATE"
    /\ b_i <= Len(b_codes)
    /\ IF Registered(b_codes[b_i])
       THEN /\ b_valid' = Append(b_valid, b_codes[b_i])
            /\ UNCHANGED b_errors
       ELSE /\ b_errors' = Append(b_errors, b_codes[b_i])
            /\ UNCHANGED b_valid
    /\ b_i' = b_i + 1
    /\ UNCHANGED << b_entry, b_codes, b_pc, b_ran, b_failed >>
    /\ UNCHANGED << pipeVars, fetchVars, recordVars, concVars >>

\* run_extraction.py main: "if not valid_countries: sys.exit(1)", else
\* run_batch_extraction(valid_countries)
ValidateEnd ==
    /\ b_entry = "run_extraction.py"
    /\ b_pc = "VALIDATE"
    /\ b_i > Len(b_codes)
    /\ b_pc' = IF b_valid = << >> THEN "EXIT_1" ELSE "BATCH"
    /\ b_i' = 1
    /\ UNCHANGED << b_entry, b_codes, b_valid, b_ran, b_failed, b_errors >>
    /\ UNCHANGED << pipeVars, fetchVars, recordVars, concVars >>

\* run_batch_extraction: run_extraction_with_monitoring of one country; an
\* exception of extractor.run becomes a result with success False
BatchRun ==
    /\ b_entry = "run_extraction.py"
    /\ b_pc = "BATCH"
    /\ b_i <= Len(b_valid)
    /\ b_ran' = Append(b_ran, b_valid[b_i])
    /\ \E ok \in BOOLEAN :
          b_failed' = IF ok THEN b_failed ELSE b_failed \cup {b_valid[b_i]}
    /\ b_i' = b_i + 1
    /\ UNCHANGED << b_entry, b_codes, b_pc, b_valid, b_errors >>
    /\ UNCHANGED << pipeVars, fetchVars, recordVars, concVars >>

\* run_extraction.py main: sys.exit(1) if any extraction failed
BatchEnd ==
    /\ b_entry = "run_extraction.py"
    /\ b_pc = "BATCH"
    /\ b_i > Len(b_valid)
    /\ b_pc' = IF b_failed /= {} THEN "EXIT_1" ELSE "EXIT_0"
    /\ UNCHANGED << b_entry, b_codes, b_i, b_valid, b_ran, b_failed,
                    b_errors >>
    /\ UNCHANGED << pipeVars, fetchVars, recordVars, concVars >>

CodeLists == UNION {[1..n -> CodePool] : n \in 1..MaxCodes}

InitCli ==
    /\ PipeInit({ThresholdPool})
    /\ FetchIdle
    /\ RecordIdle
    /\ ConcIdle
    /\ \E script \in Scripts, typed \in CodeLists :
          CliState(script,
                   [i \in 1..Len(typed) |-> StripUpper(typed[i])],
                   IF script = "run_extraction.py" THEN "VALIDATE"
                   ELSE "LOOP")

NextCli ==
    \/ MainRun
    \/ MainUnknown
    \/ MainEnd
    \/ Validate
    \/ ValidateEnd
    \/ BatchRun
    \/ BatchEnd

SpecCli == InitCli /\ [][NextCli]_vars

\* the script has exited
Exited == b_pc \in {"EXIT_0", "EXIT_1"}

\* the elements of a sequence
Range(seq) == {seq[i] : i \in 1..Len(seq)}

\* C17: an unknown country code in a batch is reported as an error and only
\* that country is skipped: every registered country of the batch, before
\* or after the unknown one, is still processed.
C17_AsStated ==
    Exited
    => \A i \in 1..Len(b_codes) :
          IF Registered(b_codes[i])
          THEN b_codes[i] \in Range(b_ran)
          ELSE b_codes[i] \in Range(b_errors)

(***************************************************************************)
(* Claims about normalize.                                                 *)
(***************************************************************************)
\* C18: no error in a single record stops the remaining records: a run
\* whose batch holds a record that normalizes without error does not end
\* at the exception of another record; it persists and deduplicates and
\* reaches DONE.
C18_AsStated ==
    (\E i \in 1..Len(q_raw) : ~NormalizeRaises(q_country, q_raw[i]))
    => q_pc /= "FAILED"

\* a coordinate that is a number, or the text of a number, beyond the limit
OutOfRange(coord, limit) ==
    LET value == IF coord.k = "num" THEN coord.v ELSE ParseNumber(coord.v)
    IN  /\ coord.k /= "null"
        /\ coord.k = "str" => IsNumeric(coord.v)
        /\ value < 0 - limit \/ value > limit

\* C19: normalize of every country sets to null a latitude outside
\* [-90, 90] and a longitude outside [-180, 180], so no row of the table
\* has an out-of-range latitude or longitude.
C19_AsStated ==
    /\ q_pc = "PERSISTING"
       => \A i \in 1..Len(q_data) :
             /\ OutOfRange(q_raw[i].latitude, 90)
                => q_data[i].latitude = NoCoord
             /\ OutOfRange(q_raw[i].longitude, 180)
                => q_data[i].longitude = NoCoord
    /\ \A row \in q_table :
          /\ ~OutOfRange(row.latitude, 90)
          /\ ~OutOfRange(row.longitude, 180)

\* C20: normalize is idempotent for every registered country: normalizing
\* the normalized batch gives the normalized batch, also for names with
\* nested or adjacent '[edit]' and '[n]' decorations.
C20_AsStated ==
    q_pc = "PERSISTING"
    => /\ ~normalize_raises(q_country, q_data)
       /\ normalize(q_country, q_data) = q_data

(***************************************************************************)
(* Claims about the rows of the table across runs.                         *)
(***************************************************************************)
\* C21: every row written by a run has a non-empty name, a type of the
\* enumeration, and the country of the extractor that ran.
C21_AsStated ==
    \A row \in q_table :
        /\ row.name /= NULL
        /\ row.name /= ""
        /\ row.type \in InstitutionType
        /\ row.country = q_country

\* C22: across any sequence of runs, the last_updated stored for an
\* institution id never decreases while the row exists.
C22_LastUpdatedMonotone ==
    [][\A old \in table :
          \A new \in table' :
              new.id = old.id => new.last_updated >= old.last_updated]_vars

\* a row written on an earlier day is still there after a later run of its
\* country has inserted rows
C22_Witness ==
    \E r \in Runs :
        /\ pc[r] = "DONE"
        /\ \E old \in table, new \in table :
              /\ old.country = country[r]
              /\ new.country = country[r]
              /\ old \in table0[r]
              /\ new \notin table0[r]
              /\ old.last_updated < new.last_updated

(***************************************************************************)
(* Two sessions that call run(force=False, refresh_days) for the same      *)
(* country, each on its own connection, statement by statement, under      *)
(* read-committed visibility: a session sees what is committed.  A         *)
(* statement may raise (the database is gone) and a process may be         *)
(* interrupted (killed) at any point of its run.                           *)
(***************************************************************************)
\* how many runs are started in all
MaxConcStarts == 3
\* the longest batch fetch_data returns to a session
MaxConcBatch == 3

\* the countries whose extractor the sessions run
ConcCountries == {"CAN"}

\* the upstream page lists some of the chain records, in page order
ChainList == << RecA, RecB, RecC >>
ConcBatches ==
    {SelectSeq(ChainList, LAMBDA rec : rec \in listed) :
        listed \in {some \in SUBSET ChainPool :
                       Cardinality(some) <= MaxConcBatch}}

\* the positions inside the try block of run
InTry ==
    {"CHECK_FRESHNESS", "EXTRACTING", "NORMALIZING", "PERSISTING",
     "COMMITTING", "DEDUPLICATING", "DEDUP_SCANNED"}

\* the positions whose statement talks to the database or to the network
\* and so may raise whatever the data: the SELECT of needs_refresh, the
\* requests of fetch_data, conn.commit(), the SELECT and the DELETE of
\* deduplicate
RaisePoints ==
    {"CHECK_FRESHNESS", "EXTRACTING", "COMMITTING", "DEDUPLICATING",
     "DEDUP_SCANNED"}

\* the positions at which the INSERTs of the run are committed
AfterCommit == {"DEDUPLICATING", "DEDUP_SCANNED", "DONE"}

ConcQuiet == \A p \in Sessions : c_pc[p] \notin InTry \cup {"RERAISING"}

\* what run_extraction_with_monitoring records for a run (run_extraction.py
\* 59-102): success unless run raised
result_of(run_raised) == IF run_raised THEN "failed" ELSE "success"

\* a day passes while no run is in progress
ConcTick ==
    /\ ConcQuiet
    /\ c_now < MaxTime
    /\ c_now' = c_now + 1
    /\ UNCHANGED << c_country, c_web, c_starts, c_table, c_seq, c_ever, c_pc,
                    c_conn, c_data, c_pending, c_existing, c_table0, c_at,
                    c_late, c_report >>
    /\ UNCHANGED << pipeVars, fetchVars, recordVars, cliVars >>

\* the batch runner of a live process goes on to its next run:
\* extractor_class() connects, run is called
ConcStart(p) ==
    /\ c_pc[p] \in {"IDLE", "SKIPPED", "DONE", "FAILED"}
    /\ c_starts < MaxConcStarts
    /\ c_starts' = c_starts + 1
    /\ c_pc' = [c_pc EXCEPT ![p] = "CHECK_FRESHNESS"]
    /\ c_conn' = [c_conn EXCEPT ![p] = TRUE]
    /\ c_data' = [c_data EXCEPT ![p] = << >>]
    /\ c_pending' = [c_pending EXCEPT ![p] = {}]
    /\ c_existing' = [c_existing EXCEPT ![p] = {}]
    /\ c_table0' = [c_table0 EXCEPT ![p] = c_table]
    /\ c_at' = [c_at EXCEPT ![p] = "none"]
    /\ c_late' = [c_late EXCEPT ![p] =
                    \E q \in Sessions :
                        /\ c_pc[q] = "KILLED"
                        /\ c_at[q] \in {"DEDUPLICATING", "DEDUP_SCANNED"}]
    /\ UNCHANGED << c_country, c_web, c_now, c_table, c_seq, c_ever,
                    c_report >>
    /\ UNCHANGED << pipeVars, fetchVars, recordVars, cliVars >>

\* if self.needs_refresh(days): ... else: "No refresh needed", finally close
ConcCheckFreshness(p) ==
    /\ c_pc[p] = "CHECK_FRESHNESS"
    /\ IF needs_refresh(c_table, c_country, c_now, MaxRefreshDays)
       THEN /\ c_pc' = [c_pc EXCEPT ![p] = "EXTRACTING"]
            /\ UNCHANGED << c_conn, c_report >>
       ELSE /\ c_pc' = [c_pc EXCEPT ![p] = "SKIPPED"]
            /\ c_conn' = [c_conn EXCEPT ![p] = FALSE]
            /\ c_report' = [c_report EXCEPT ![p] = result_of(FALSE)]
    /\ UNCHANGED << c_country, c_web, c_now, c_starts, c_table, c_seq, c_ever,
                    c_data, c_pending, c_existing, c_table0, c_at, c_late >>
    /\ UNCHANGED << pipeVars, fetchVars, recordVars, cliVars >>

\* data = self.fetch_data(): every adapter has returned
ConcFetch(p) ==
    /\ c_pc[p] = "EXTRACTING"
    /\ c_data' = [c_data EXCEPT ![p] = c_web]
    /\ c_pc' = [c_pc EXCEPT ![p] = "NORMALIZING"]
    /\ UNCHANGED << c_country, c_web, c_now, c_starts, c_table, c_seq, c_ever,
                    c_conn, c_pending, c_existing, c_table0, c_at, c_late,
                    c_report >>
    /\ UNCHANGED << pipeVars, fetchVars, recordVars, cliVars >>

\* normalized = self.normalize(data)
ConcNormalize(p) ==
    /\ c_pc[p] = "NORMALIZING"
    /\ IF normalize_raises(c_country, c_data[p])
       THEN /\ c_pc' = [c_pc EXCEPT ![p] = "RERAISING"]
            /\ c_at' = [c_at EXCEPT ![p] = "NORMALIZING"]
            /\ UNCHANGED c_data
       ELSE /\ c_pc' = [c_pc EXCEPT ![p] = "PERSISTING"]
            /\ c_data' = [c_data EXCEPT ![p] = normalize(c_country, @)]
            /\ UNCHANGED c_at
    /\ UNCHANGED << c_country, c_web, c_now, c_starts, c_table, c_seq, c_ever,
                    c_conn, c_pending, c_existing, c_table0, c_late,
                    c_report >>
    /\ UNCHANGED << pipeVars, fetchVars, recordVars, cliVars >>

\* insert_to_db writing the rows of its INSERTs to the table at once, as a
\* connection with autocommit would
ConcInsert_autocommit(p) ==
    /\ c_pc[p] = "PERSISTING"
    /\ LET res == insert_result(c_country, c_data[p], c_seq, c_now)
       IN  /\ c_pending' = [c_pending EXCEPT ![p] = Committed(res)]
           /\ c_table' = c_table \cup Committed(res)
           /\ c_ever' = c_ever \cup Committed(res)
           /\ c_seq' = res.seq
    /\ c_pc' = [c_pc EXCEPT ![p] = "COMMITTING"]
    /\ UNCHANGED << c_country, c_web, c_now, c_starts, c_conn, c_data,
                    c_existing, c_table0, c_at, c_late, c_report >>
    /\ UNCHANGED << pipeVars, fetchVars, recordVars, cliVars >>

\* insert_to_db: the loop of INSERTs, inside the transaction of the session
ConcInsert(p) ==
    /\ c_pc[p] = "PERSISTING"
    /\ LET res == insert_result(c_country, c_data[p], c_seq, c_now)
       IN  /\ c_pending' = [c_pending EXCEPT ![p] = Committed(res)]
           /\ c_seq' = res.seq
    /\ c_pc' = [c_pc EXCEPT ![p] = "COMMITTING"]
    /\ UNCHANGED << c_country, c_web, c_now, c_starts, c_table, c_ever,
                    c_conn, c_data, c_existing, c_table0, c_at, c_late,
                    c_report >>
    /\ UNCHANGED << pipeVars, fetchVars, recordVars, cliVars >>

\* insert_to_db: self.conn.commit()
ConcCommit(p) ==
    /\ c_pc[p] = "COMMITTING"
    /\ c_table' = c_table \cup c_pending[p]
    /\ c_ever' = c_ever \cup c_pending[p]
    /\ c_pc' = [c_pc EXCEPT ![p] = "DEDUPLICATING"]
    /\ UNCHANGED << c_country, c_web, c_now, c_starts, c_seq, c_conn, c_data,
                    c_pending, c_existing, c_table0, c_at, c_late, c_report >>
    /\ UNCHANGED << pipeVars, fetchVars, recordVars, cliVars >>

\* deduplicate: the SELECT
ConcDedupSelect(p) ==
    /\ c_pc[p] = "DEDUPLICATING"
    /\ c_existing' = [c_existing EXCEPT ![p] = RowsOf(c_table, c_country)]
    /\ c_pc' = [c_pc EXCEPT ![p] = "DEDUP_SCANNED"]
    /\ UNCHANGED << c_country, c_web, c_now, c_starts, c_table, c_seq, c_ever,
                    c_conn, c_data, c_pending, c_table0, c_at, c_late,
                    c_report >>
    /\ UNCHANGED << pipeVars, fetchVars, recordVars, cliVars >>

\* deduplicate that looks for duplicates among the rows of its own run only
ConcDedupDelete_own_rows(p) ==
    /\ c_pc[p] = "DEDUP_SCANNED"
    /\ c_table' = {row \in c_table :
                      row.id \notin duplicates_of(c_existing[p]
                                                  \cap c_pending[p])}
    /\ c_pc' = [c_pc EXCEPT ![p] = "DONE"]
    /\ c_conn' = [c_conn EXCEPT ![p] = FALSE]
    /\ c_report' = [c_report EXCEPT ![p] = result_of(FALSE)]
    /\ UNCHANGED << c_country, c_web, c_now, c_starts, c_seq, c_ever, c_data,
                    c_pending, c_existing, c_table0, c_at, c_late >>
    /\ UNCHANGED << pipeVars, fetchVars, recordVars, cliVars >>

\* deduplicate: the scan, the DELETE and its commit; run returns through
\* finally: self.close()
ConcDedupDelete(p) ==
    /\ c_pc[p] = "DEDUP_SCANNED"
    /\ c_table' = {row \in c_table :
                      row.id \notin duplicates_of(c_existing[p])}
    /\ c_pc' = [c_pc EXCEPT ![p] = "DONE"]
    /\ c_conn' = [c_conn EXCEPT ![p] = FALSE]
    /\ c_report' = [c_report EXCEPT ![p] = result_of(FALSE)]
    /\ UNCHANGED << c_country, c_web, c_now, c_starts, c_seq, c_ever, c_data,
                    c_pending, c_existing, c_table0, c_at, c_late >>
    /\ UNCHANGED << pipeVars, fetchVars, recordVars, cliVars >>

\* a statement of the try block raises: "except Exception", logger.error
ConcRaise(p) ==
    /\ c_pc[p] \in RaisePoints
    /\ c_at' = [c_at EXCEPT ![p] = c_pc[p]]
    /\ c_pc' = [c_pc EXCEPT ![p] = "RERAISING"]
    /\ UNCHANGED << c_country, c_web, c_now, c_starts, c_table, c_seq, c_ever,
                    c_conn, c_data, c_pending, c_existing, c_table0, c_late,
                    c_report >>
    /\ UNCHANGED << pipeVars, fetchVars, recordVars, cliVars >>

\* run without "finally: self.close()": the exception reaches the caller
\* with the connection open
ConcFinally_no_close(p) ==
    /\ c_pc[p] = "RERAISING"
    /\ c_pc' = [c_pc EXCEPT ![p] = "FAILED"]
    /\ c_report' = [c_report EXCEPT ![p] = result_of(TRUE)]
    /\ UNCHANGED << c_country, c_web, c_now, c_starts, c_table, c_seq, c_ever,
                    c_conn, c_data, c_pending, c_existing, c_table0, c_at,
                    c_late >>
    /\ UNCHANGED << pipeVars, fetchVars, recordVars, cliVars >>

\* "raise" through "finally: self.close()": the open transaction is rolled
\* back, then the exception reaches run_extraction_with_monitoring
ConcFinally(p) ==
    /\ c_pc[p] = "RERAISING"
    /\ c_conn' = [c_conn EXCEPT ![p] = FALSE]
    /\ c_pc' = [c_pc EXCEPT ![p] = "FAILED"]
    /\ c_report' = [c_report EXCEPT ![p] = result_of(TRUE)]
    /\ UNCHANGED << c_country, c_web, c_now, c_starts, c_table, c_seq, c_ever,
                    c_data, c_pending, c_existing, c_table0, c_at, c_late >>
    /\ UNCHANGED << pipeVars, fetchVars, recordVars, cliVars >>

\* the process is killed: the server closes its connection and rolls back
\* its open transaction
ConcKill(p) ==
    /\ c_pc[p] \in InTry
    /\ c_at' = [c_at EXCEPT ![p] = c_pc[p]]
    /\ c_pc' = [c_pc EXCEPT ![p] = "KILLED"]
    /\ c_conn' = [c_conn EXCEPT ![p] = FALSE]
    /\ UNCHANGED << c_country, c_web, c_now, c_starts, c_table, c_seq, c_ever,
                    c_data, c_pending, c_existing, c_table0, c_late,
                    c_report >>
    /\ UNCHANGED << pipeVars, fetchVars, recordVars, cliVars >>

InitConc ==
    /\ PipeInit({ThresholdPool})
    /\ FetchIdle
    /\ RecordIdle
    /\ CliIdle
    /\ \E c \in ConcCountries, batch \in ConcBatches : ConcState(c, batch)

NextConc ==
    \/ ConcTick
    \/ \E p \in Sessions : ConcStart(p)
    \/ \E p \in Sessions : ConcCheckFreshness(p)
    \/ \E p \in Sessions : ConcFetch(p)
    \/ \E p \in Sessions : ConcNormalize(p)
    \/ \E p \in Sessions : ConcInsert(p)
    \/ \E p \in Sessions : ConcCommit(p)
    \/ \E p \in Sessions : ConcDedupSelect(p)
    \/ \E p \in Sessions : ConcDedupDelete(p)
    \/ \E p \in Sessions : ConcRaise(p)
    \/ \E p \in Sessions : ConcFinally(p)
    \/ \E p \in Sessions : ConcKill(p)

SpecConc == InitConc /\ [][NextConc]_vars

(***************************************************************************)
(* Claims about concurrent and interrupted runs.                           *)
(***************************************************************************)
\* two rows of one country that deduplicate takes for the same institution
Similar(a, b) ==
    /\ a.id < b.id
    /\ a.country = b.country
    /\ Score(Text(a), Text(b)) > Threshold

NoDuplicates(rows) == \A a \in rows, b \in rows : ~Similar(a, b)

\* the two sessions both called run on the empty table and both committed
\* their INSERTs: both passed the freshness check before either commit
Raced(p, q) ==
    /\ p /= q
    /\ c_table0[p] = {} /\ c_table0[q] = {}
    /\ c_pc[p] \in AfterCommit /\ c_pc[q] \in AfterCommit
    /\ c_pending[p] /= {} /\ c_pending[q] /= {}

\* C23: two concurrent runs for one country can both pass the freshness
\* check and both insert, which leaves duplicate rows in the committed
\* table; a deduplication pass that starts after both inserts are
\* committed removes them: of the rows it read, no two similar rows are
\* left in the table when it is done.
C23_RaceThenDedup ==
    \A p \in Sessions :
        c_pc[p] = "DONE"
        => /\ NoDuplicates(c_table \cap c_existing[p])
           /\ \A q \in Sessions :
                 ( /\ Raced(p, q)
                   /\ c_pending[q] \cap c_existing[p] /= {} )
                 => NoDuplicates(c_table
                                 \cap (c_pending[p] \cup c_pending[q]))

\* both sessions passed the check and committed, and the pass of a session
\* that is now done read a row of each that are duplicates of each other
C23_Witness ==
    \E p \in Sessions, q \in Sessions :
        /\ Raced(p, q)
        /\ c_pc[p] = "DONE"
        /\ \E a \in c_pending[p] \cap c_existing[p],
              b \in c_pending[q] \cap c_existing[p] : Similar(a, b)

\* C24: when a run was interrupted after its INSERTs were committed and
\* before its deduplicate ran, then once a later run of the same country
\* (force = false, the same refresh_days) has reached a terminal state, no
\* two similar rows of the country are left.
C24_AsStated ==
    \A p \in Sessions :
        (c_late[p] /\ c_pc[p] \in {"SKIPPED", "DONE"})
        => NoDuplicates(RowsOf(c_table, c_country))

(***************************************************************************)
(* A run whose adapters all returned nothing.                              *)
(***************************************************************************)
\* fetch_data of run r has returned, and it returned the empty list
FetchedNothing(r) ==
    /\ pc[r] \in {"NORMALIZING", "PERSISTING", "DEDUPLICATING",
                  "DEDUP_SCANNED", "DONE", "FAILED"}
    /\ data[r] = << >>

\* C25: a non-skipped run in which every adapter returned an empty list
\* still passes through normalize, insert and deduplicate (its next phase is
\* always enabled and it never fails), reaches DONE with all four phases
\* completed and without raising, has added no row, has closed its
\* connection, and is recorded as a success by the batch runner.
C25_EmptyRunSucceeds ==
    \A r \in Runs :
        FetchedNothing(r)
        => /\ pc[r] /= "FAILED"
           /\ ~raised[r]
           /\ table \subseteq table0[r]
           /\ (pc[r] = "NORMALIZING" => ENABLED Normalize(r))
           /\ (pc[r] = "PERSISTING" => ENABLED InsertToDb(r))
           /\ (pc[r] = "DEDUPLICATING" => ENABLED DedupSelect(r))
           /\ (pc[r] = "DEDUP_SCANNED" => ENABLED DedupDelete(r))
           /\ (pc[r] = "DONE"
                 => /\ phases[r] = PhaseOrder
                    /\ ~conn_open[r]
                    /\ result_of(raised[r]) = "success")

\* a run over a table that has rows ended DONE after it fetched nothing
C25_Witness ==
    \E r \in Runs :
        /\ FetchedNothing(r)
        /\ pc[r] = "DONE"
        /\ table0[r] /= {}

(***************************************************************************)
(* Freshness after a run.                                                  *)
(***************************************************************************)
\* the INSERTs of run r committed at least one row
InsertedSome(r) ==
    Committed(insert_result(country[r], data[r], 1, now)) /= {}

\* C26: after a non-skipped run has reached DONE having fetched at least one
\* insertable record, the country is not stale: needs_refresh of a run that
\* follows immediately with force = false is false for every refresh_days
\* >= 1, so that run is SKIPPED, also when the fetched records duplicate
\* rows stored earlier.
C26_AsStated ==
    [][\A r \in Runs :
          (pc[r] /= "DONE" /\ pc'[r] = "DONE" /\ InsertedSome(r))
          => \A d \in 1..MaxRefreshDays :
                ~needs_refresh(table', country[r], now', d)]_vars

(***************************************************************************)
(* Two runs for one country that have both finished.                       *)
(***************************************************************************)
\* the rows of a set are similar to each other, pair by pair
MutuallySimilar(rows) ==
    \A a \in rows, b \in rows : a.id < b.id => Similar(a, b)

\* the groups of mutually similar rows among the rows ever committed: the
\* sets of two or more such rows that no further row can join
SimilarGroups ==
    {g \in SUBSET c_ever :
        /\ Cardinality(g) >= 2
        /\ MutuallySimilar(g)
        /\ \A other \in c_ever \ g : ~MutuallySimilar(g \cup {other})}

LowestOf(g) == CHOOSE a \in g : \A b \in g : a.id <= b.id

BothDone == \A p \in Sessions : c_pc[p] = "DONE"

\* C27: when two runs for the same country, each committing its INSERTs
\* before its own deduplicate, have both reached DONE, then in every
\* interleaving no two similar rows of the country are left, and the
\* lowest-id member of every group of mutually similar rows is still in
\* the table.
C27_AsStated ==
    BothDone
    => /\ NoDuplicates(RowsOf(c_table, c_country))
       /\ \A g \in SimilarGroups : LowestOf(g) \in c_table

(***************************************************************************)
(* The connection of a run on each of its exit paths.                      *)
(***************************************************************************)
\* C28: run releases its cursor and connection on every exit path: the
\* connection is open while run is inside its try block or its except
\* clause and closed when run has returned (SKIPPED, DONE) or has re-raised
\* (FAILED) an exception of the freshness check, fetch, normalize, insert
\* or deduplicate; the caller receives the exception only with the
\* connection closed, records the run as failed, and can start the next
\* run.
C28_ClosedOnEveryExit ==
    \A p \in Sessions :
        /\ (c_pc[p] \in InTry \cup {"RERAISING"} => c_conn[p])
        /\ (c_pc[p] \in {"SKIPPED", "DONE"}
              => ~c_conn[p] /\ c_report[p] = "success")
        /\ (c_pc[p] = "FAILED"
              => /\ ~c_conn[p]
                 /\ c_at[p] \in RaisePoints \cup {"NORMALIZING"}
                 /\ c_report[p] = "failed"
                 /\ (c_starts < MaxConcStarts => ENABLED ConcStart(p)))

\* a run whose deduplicate raised after its INSERTs were committed has
\* re-raised, while the other session is inside its own run
C28_Witness ==
    \E p \in Sessions, q \in Sessions :
        /\ c_pc[p] = "FAILED"
        /\ c_at[p] = "DEDUP_SCANNED"
        /\ c_pending[p] /= {}
        /\ c_pc[q] \in InTry

(***************************************************************************)
(* The rows of the other countries.                                        *)
(***************************************************************************)
\* the rows of a table whose country is not c
RowsOfOthers(tbl, c) == {row \in tbl : row.country /= c}

\* C29: country frame: no step of a run for country C (insert_to_db and
\* deduplicate included) inserts, deletes or modifies a row whose country
\* is different from C, also when a row of another country has the same
\* name and address as a row of C.
C29_CountryFrame ==
    [][\A r \in Runs :
          RowsOfOthers(table', country'[r]) = RowsOfOthers(table, country'[r])]_vars

\* a finished run has inserted a row, still stored, whose name and address
\* are those of a row another country had before the run
C29_Witness ==
    \E r \in Runs :
        /\ pc[r] = "DONE"
        /\ \E mine \in table \ table0[r], other \in table0[r] :
              /\ mine.country = country[r]
              /\ other.country /= country[r]
              /\ Text(mine) = Text(other)
              /\ other \in table

(***************************************************************************)
(* When the rows of a batch are written and when they become visible.      *)
(***************************************************************************)
\* the positions of run before conn.commit() of insert_to_db has returned
BeforeCommit ==
    {"CHECK_FRESHNESS", "EXTRACTING", "NORMALIZING", "PERSISTING",
     "COMMITTING"}

\* run of session p was interrupted (killed, or left by an exception)
\* before the commit of insert_to_db
InterruptedBeforeCommit(p) ==
    /\ c_pc[p] \in {"KILLED", "RERAISING", "FAILED"}
    /\ c_at[p] \in BeforeCommit

\* C30: no row is written before every adapter of the run has returned and
\* normalize has finished; the rows of a batch are visible to other
\* sessions (are in the committed table) only from the single commit at
\* the end of insert_to_db; a run interrupted before that commit has put
\* no row into the table, which is exactly as it was before the run when
\* no other session has run.
C30_NothingBeforeCommit ==
    \A p \in Sessions :
        /\ (c_pc[p] \in {"CHECK_FRESHNESS", "EXTRACTING", "NORMALIZING",
                         "PERSISTING"}
              => c_pending[p] = {})
        /\ (c_pc[p] = "COMMITTING" => c_pending[p] \cap c_ever = {})
        /\ (c_pc[p] \in BeforeCommit
              => \A q \in Sessions \ {p} :
                    c_pc[q] = "IDLE" => c_table = c_table0[p])
        /\ (InterruptedBeforeCommit(p)
              => /\ c_pending[p] \cap c_ever = {}
                 /\ \A q \in Sessions \ {p} :
                       c_pc[q] = "IDLE" => c_table = c_table0[p])

\* a run over a table that has rows was killed at conn.commit(), after its
\* INSERTs, and no other session has run
C30_Witness ==
    \E p \in Sessions :
        /\ c_pc[p] = "KILLED"
        /\ c_at[p] = "COMMITTING"
        /\ c_pending[p] /= {}
        /\ c_table0[p] /= {}
        /\ \A q \in Sessions \ {p} : c_pc[q] = "IDLE"

====
